---------------------------- MODULE Spec2Model ----------------------------
(***************************************************************************)
(* A model of wiktextract/clean.py: the script converters (to_superscript, *)
(* to_subscript, to_chem), the math expander (to_math) and the value       *)
(* cleaner (clean_value).                                                  *)
(*                                                                         *)
(* A Python str is a sequence of characters; a character is a TLA+ string: *)
(* the character itself when it is printable ASCII ("a", "\\", "\n"), and  *)
(* "U+XXXX" (its code point) otherwise, so "U+00B2" is SUPERSCRIPT TWO.    *)
(* A regular expression of the source is a tree (Set, Cat, Alt, Star, ...) *)
(* run by a backtracking matcher with the priorities of Python's re.       *)
(***************************************************************************)
EXTENDS Integers, Sequences, FiniteSets, TLC

VARIABLES pc, op, arg, res, prev

vars == <<pc, op, arg, res, prev>>

(***************************************************************************)
(* Characters: the classes Python's str methods and re give them.          *)
(***************************************************************************)
\* [a-z], [A-Z], [0-9]
Lower ==
    {"a", "b", "c", "d", "e", "f", "g", "h", "i", "j", "k", "l", "m"} \cup
    {"n", "o", "p", "q", "r", "s", "t", "u", "v", "w", "x", "y", "z"}

Upper ==
    {"A", "B", "C", "D", "E", "F", "G", "H", "I", "J", "K", "L", "M"} \cup
    {"N", "O", "P", "Q", "R", "S", "T", "U", "V", "W", "X", "Y", "Z"}

AsciiDigits == {"0", "1", "2", "3", "4", "5", "6", "7", "8", "9"}

LowerSeq ==
    <<"a", "b", "c", "d", "e", "f", "g", "h", "i", "j", "k", "l", "m", "n", "o", "p", "q", "r", "s", "t", "u", "v", "w", "x", "y", "z">>

UpperSeq ==
    <<"A", "B", "C", "D", "E", "F", "G", "H", "I", "J", "K", "L", "M", "N", "O", "P", "Q", "R", "S", "T", "U", "V", "W", "X", "Y", "Z">>

\* c.upper(), c.lower() for an ASCII character
ToUpper(c) ==
    IF c \in Lower
    THEN UpperSeq[CHOOSE k \in 1..26 : LowerSeq[k] = c]
    ELSE c

ToLower(c) ==
    IF c \in Upper
    THEN LowerSeq[CHOOSE k \in 1..26 : UpperSeq[k] = c]
    ELSE c
\* c.isalpha()
AlphaChars ==
    {"A", "B", "C", "D", "E", "F", "G", "H", "I", "J", "K", "L", "M", "N",
     "O", "P", "Q", "R", "S", "T", "U", "V", "W", "X", "Y", "Z", "a", "b",
     "c", "d", "e", "f", "g", "h", "i", "j", "k", "l", "m", "n", "o", "p",
     "q", "r", "s", "t", "u", "v", "w", "x", "y", "z", "U+00E8", "U+00E9",
     "U+00F0", "U+0131", "U+0190", "U+0237", "U+0259", "U+02B0", "U+02B2",
     "U+02B3", "U+02B7", "U+02B8", "U+02E1", "U+02E2", "U+02E3", "U+03B2",
     "U+03B3", "U+03B4", "U+03B5", "U+03B8", "U+03B9", "U+03BC", "U+03C1",
     "U+03C2", "U+03C6", "U+03C7", "U+05D0", "U+05D1", "U+05D2", "U+05D3",
     "U+1D2C", "U+1D2E", "U+1D30", "U+1D31", "U+1D33", "U+1D34", "U+1D35",
     "U+1D36", "U+1D37", "U+1D38", "U+1D39", "U+1D3A", "U+1D3C", "U+1D3E",
     "U+1D3F", "U+1D40", "U+1D41", "U+1D42", "U+1D43", "U+1D47", "U+1D48",
     "U+1D49", "U+1D4D", "U+1D4F", "U+1D50", "U+1D52", "U+1D56", "U+1D57",
     "U+1D58", "U+1D5B", "U+1D5D", "U+1D5E", "U+1D5F", "U+1D60", "U+1D61",
     "U+1D62", "U+1D63", "U+1D64", "U+1D65", "U+1D68", "U+1D69", "U+1D6A",
     "U+1D9C", "U+1DA0", "U+1DA5", "U+1DBB", "U+1DBF", "U+2071", "U+207F",
     "U+2090", "U+2091", "U+2092", "U+2093", "U+2094", "U+2095", "U+2096",
     "U+2097", "U+2098", "U+2099", "U+209A", "U+209B", "U+209C", "U+2102",
     "U+210A", "U+210B", "U+210C", "U+210D", "U+210F", "U+2110", "U+2111",
     "U+2112", "U+2113", "U+2115", "U+2119", "U+211A", "U+211B", "U+211C",
     "U+211D", "U+2124", "U+2126", "U+2128", "U+212B", "U+212C", "U+212D",
     "U+212F", "U+2130", "U+2131", "U+2132", "U+2133", "U+2134", "U+213C",
     "U+213D", "U+213E", "U+213F", "U+2145", "U+2146", "U+2147", "U+2148",
     "U+2149", "U+2C7C", "U+2C7D", "U+1D49C", "U+1D49E", "U+1D49F",
     "U+1D4A2", "U+1D4A5", "U+1D4A6", "U+1D4A9", "U+1D4AA", "U+1D4AB",
     "U+1D4AC", "U+1D4AE", "U+1D4AF", "U+1D4B0", "U+1D4B1", "U+1D4B2",
     "U+1D4B3", "U+1D4B4", "U+1D4B5", "U+1D4B6", "U+1D4B7", "U+1D4B8",
     "U+1D4B9", "U+1D4BB", "U+1D4BD", "U+1D4BE", "U+1D4BF", "U+1D4C0",
     "U+1D4C1", "U+1D4C2", "U+1D4C3", "U+1D4C5", "U+1D4C6", "U+1D4C7",
     "U+1D4C8", "U+1D4C9", "U+1D4CA", "U+1D4CB", "U+1D4CC", "U+1D4CD",
     "U+1D4CE", "U+1D4CF", "U+1D504", "U+1D505", "U+1D507", "U+1D508",
     "U+1D509", "U+1D50A", "U+1D50D", "U+1D50E", "U+1D50F", "U+1D510",
     "U+1D511", "U+1D512", "U+1D513", "U+1D514", "U+1D516", "U+1D517",
     "U+1D518", "U+1D519", "U+1D51A", "U+1D51B", "U+1D51C", "U+1D538",
     "U+1D539", "U+1D53B", "U+1D53C", "U+1D53D", "U+1D53E", "U+1D540",
     "U+1D541", "U+1D542", "U+1D543", "U+1D544", "U+1D546", "U+1D54A",
     "U+1D54B", "U+1D54C", "U+1D54D", "U+1D54E", "U+1D54F", "U+1D550",
     "U+1D552", "U+1D553", "U+1D554", "U+1D555", "U+1D556", "U+1D557",
     "U+1D558", "U+1D559", "U+1D55A", "U+1D55B", "U+1D55C", "U+1D55D",
     "U+1D55E", "U+1D55F", "U+1D560", "U+1D561", "U+1D562", "U+1D563",
     "U+1D564", "U+1D565", "U+1D566", "U+1D567", "U+1D568", "U+1D569",
     "U+1D56A", "U+1D56B", "U+1D6E4", "U+1D6E5", "U+1D6E9", "U+1D6EC",
     "U+1D6EF", "U+1D6F1", "U+1D6F4", "U+1D6F6", "U+1D6F7", "U+1D6F9",
     "U+1D6FA", "U+1D6FC", "U+1D6FD", "U+1D6FE", "U+1D6FF", "U+1D700",
     "U+1D701", "U+1D702", "U+1D703", "U+1D704", "U+1D705", "U+1D706",
     "U+1D707", "U+1D708", "U+1D709", "U+1D70B", "U+1D70C", "U+1D70E",
     "U+1D70F", "U+1D710", "U+1D711", "U+1D712", "U+1D713", "U+1D714",
     "U+1D718", "U+1D719", "U+1D71A", "U+1D71B"}

\* c.isdigit()
DigitChars ==
    {"0", "1", "2", "3", "4", "5", "6", "7", "8", "9", "U+00B2", "U+00B3",
     "U+00B9", "U+2074", "U+2075", "U+2076", "U+2077", "U+2078", "U+2079",
     "U+2080", "U+2081", "U+2082", "U+2083", "U+2084", "U+2085", "U+2086",
     "U+2087", "U+2088", "U+2089"}

\* c.isalnum()
AlnumChars ==
    {"0", "1", "2", "3", "4", "5", "6", "7", "8", "9", "A", "B", "C", "D",
     "E", "F", "G", "H", "I", "J", "K", "L", "M", "N", "O", "P", "Q", "R",
     "S", "T", "U", "V", "W", "X", "Y", "Z", "a", "b", "c", "d", "e", "f",
     "g", "h", "i", "j", "k", "l", "m", "n", "o", "p", "q", "r", "s", "t",
     "u", "v", "w", "x", "y", "z", "U+00B2", "U+00B3", "U+00B9", "U+00E8",
     "U+00E9", "U+00F0", "U+0131", "U+0190", "U+0237", "U+0259", "U+02B0",
     "U+02B2", "U+02B3", "U+02B7", "U+02B8", "U+02E1", "U+02E2", "U+02E3",
     "U+03B2", "U+03B3", "U+03B4", "U+03B5", "U+03B8", "U+03B9", "U+03BC",
     "U+03C1", "U+03C2", "U+03C6", "U+03C7", "U+05D0", "U+05D1", "U+05D2",
     "U+05D3", "U+1D2C", "U+1D2E", "U+1D30", "U+1D31", "U+1D33", "U+1D34",
     "U+1D35", "U+1D36", "U+1D37", "U+1D38", "U+1D39", "U+1D3A", "U+1D3C",
     "U+1D3E", "U+1D3F", "U+1D40", "U+1D41", "U+1D42", "U+1D43", "U+1D47",
     "U+1D48", "U+1D49", "U+1D4D", "U+1D4F", "U+1D50", "U+1D52", "U+1D56",
     "U+1D57", "U+1D58", "U+1D5B", "U+1D5D", "U+1D5E", "U+1D5F", "U+1D60",
     "U+1D61", "U+1D62", "U+1D63", "U+1D64", "U+1D65", "U+1D68", "U+1D69",
     "U+1D6A", "U+1D9C", "U+1DA0", "U+1DA5", "U+1DBB", "U+1DBF", "U+2071",
     "U+2074", "U+2075", "U+2076", "U+2077", "U+2078", "U+2079", "U+207F",
     "U+2080", "U+2081", "U+2082", "U+2083", "U+2084", "U+2085", "U+2086",
     "U+2087", "U+2088", "U+2089", "U+2090", "U+2091", "U+2092", "U+2093",
     "U+2094", "U+2095", "U+2096", "U+2097", "U+2098", "U+2099", "U+209A",
     "U+209B", "U+209C", "U+2102", "U+210A", "U+210B", "U+210C", "U+210D",
     "U+210F", "U+2110", "U+2111", "U+2112", "U+2113", "U+2115", "U+2119",
     "U+211A", "U+211B", "U+211C", "U+211D", "U+2124", "U+2126", "U+2128",
     "U+212B", "U+212C", "U+212D", "U+212F", "U+2130", "U+2131", "U+2132",
     "U+2133", "U+2134", "U+213C", "U+213D", "U+213E", "U+213F", "U+2145",
     "U+2146", "U+2147", "U+2148", "U+2149", "U+2C7C", "U+2C7D", "U+1D49C",
     "U+1D49E", "U+1D49F", "U+1D4A2", "U+1D4A5", "U+1D4A6", "U+1D4A9",
     "U+1D4AA", "U+1D4AB", "U+1D4AC", "U+1D4AE", "U+1D4AF", "U+1D4B0",
     "U+1D4B1", "U+1D4B2", "U+1D4B3", "U+1D4B4", "U+1D4B5", "U+1D4B6",
     "U+1D4B7", "U+1D4B8", "U+1D4B9", "U+1D4BB", "U+1D4BD", "U+1D4BE",
     "U+1D4BF", "U+1D4C0", "U+1D4C1", "U+1D4C2", "U+1D4C3", "U+1D4C5",
     "U+1D4C6", "U+1D4C7", "U+1D4C8", "U+1D4C9", "U+1D4CA", "U+1D4CB",
     "U+1D4CC", "U+1D4CD", "U+1D4CE", "U+1D4CF", "U+1D504", "U+1D505",
     "U+1D507", "U+1D508", "U+1D509", "U+1D50A", "U+1D50D", "U+1D50E",
     "U+1D50F", "U+1D510", "U+1D511", "U+1D512", "U+1D513", "U+1D514",
     "U+1D516", "U+1D517", "U+1D518", "U+1D519", "U+1D51A", "U+1D51B",
     "U+1D51C", "U+1D538", "U+1D539", "U+1D53B", "U+1D53C", "U+1D53D",
     "U+1D53E", "U+1D540", "U+1D541", "U+1D542", "U+1D543", "U+1D544",
     "U+1D546", "U+1D54A", "U+1D54B", "U+1D54C", "U+1D54D", "U+1D54E",
     "U+1D54F", "U+1D550", "U+1D552", "U+1D553", "U+1D554", "U+1D555",
     "U+1D556", "U+1D557", "U+1D558", "U+1D559", "U+1D55A", "U+1D55B",
     "U+1D55C", "U+1D55D", "U+1D55E", "U+1D55F", "U+1D560", "U+1D561",
     "U+1D562", "U+1D563", "U+1D564", "U+1D565", "U+1D566", "U+1D567",
     "U+1D568", "U+1D569", "U+1D56A", "U+1D56B", "U+1D6E4", "U+1D6E5",
     "U+1D6E9", "U+1D6EC", "U+1D6EF", "U+1D6F1", "U+1D6F4", "U+1D6F6",
     "U+1D6F7", "U+1D6F9", "U+1D6FA", "U+1D6FC", "U+1D6FD", "U+1D6FE",
     "U+1D6FF", "U+1D700", "U+1D701", "U+1D702", "U+1D703", "U+1D704",
     "U+1D705", "U+1D706", "U+1D707", "U+1D708", "U+1D709", "U+1D70B",
     "U+1D70C", "U+1D70E", "U+1D70F", "U+1D710", "U+1D711", "U+1D712",
     "U+1D713", "U+1D714", "U+1D718", "U+1D719", "U+1D71A", "U+1D71B"}

\* c.isspace(), and \s of re
SpaceChars ==
    {"\t", "\n", "\f", "\r", " ", "U+00A0"}

\* \w of re
WordChars ==
    {"0", "1", "2", "3", "4", "5", "6", "7", "8", "9", "A", "B", "C", "D",
     "E", "F", "G", "H", "I", "J", "K", "L", "M", "N", "O", "P", "Q", "R",
     "S", "T", "U", "V", "W", "X", "Y", "Z", "_", "a", "b", "c", "d", "e",
     "f", "g", "h", "i", "j", "k", "l", "m", "n", "o", "p", "q", "r", "s",
     "t", "u", "v", "w", "x", "y", "z", "U+00B2", "U+00B3", "U+00B9",
     "U+00E8", "U+00E9", "U+00F0", "U+0131", "U+0190", "U+0237", "U+0259",
     "U+02B0", "U+02B2", "U+02B3", "U+02B7", "U+02B8", "U+02E1", "U+02E2",
     "U+02E3", "U+03B2", "U+03B3", "U+03B4", "U+03B5", "U+03B8", "U+03B9",
     "U+03BC", "U+03C1", "U+03C2", "U+03C6", "U+03C7", "U+05D0", "U+05D1",
     "U+05D2", "U+05D3", "U+1D2C", "U+1D2E", "U+1D30", "U+1D31", "U+1D33",
     "U+1D34", "U+1D35", "U+1D36", "U+1D37", "U+1D38", "U+1D39", "U+1D3A",
     "U+1D3C", "U+1D3E", "U+1D3F", "U+1D40", "U+1D41", "U+1D42", "U+1D43",
     "U+1D47", "U+1D48", "U+1D49", "U+1D4D", "U+1D4F", "U+1D50", "U+1D52",
     "U+1D56", "U+1D57", "U+1D58", "U+1D5B", "U+1D5D", "U+1D5E", "U+1D5F",
     "U+1D60", "U+1D61", "U+1D62", "U+1D63", "U+1D64", "U+1D65", "U+1D68",
     "U+1D69", "U+1D6A", "U+1D9C", "U+1DA0", "U+1DA5", "U+1DBB", "U+1DBF",
     "U+2071", "U+2074", "U+2075", "U+2076", "U+2077", "U+2078", "U+2079",
     "U+207F", "U+2080", "U+2081", "U+2082", "U+2083", "U+2084", "U+2085",
     "U+2086", "U+2087", "U+2088", "U+2089", "U+2090", "U+2091", "U+2092",
     "U+2093", "U+2094", "U+2095", "U+2096", "U+2097", "U+2098", "U+2099",
     "U+209A", "U+209B", "U+209C", "U+2102", "U+210A", "U+210B", "U+210C",
     "U+210D", "U+210F", "U+2110", "U+2111", "U+2112", "U+2113", "U+2115",
     "U+2119", "U+211A", "U+211B", "U+211C", "U+211D", "U+2124", "U+2126",
     "U+2128", "U+212B", "U+212C", "U+212D", "U+212F", "U+2130", "U+2131",
     "U+2132", "U+2133", "U+2134", "U+213C", "U+213D", "U+213E", "U+213F",
     "U+2145", "U+2146", "U+2147", "U+2148", "U+2149", "U+2C7C", "U+2C7D",
     "U+1D49C", "U+1D49E", "U+1D49F", "U+1D4A2", "U+1D4A5", "U+1D4A6",
     "U+1D4A9", "U+1D4AA", "U+1D4AB", "U+1D4AC", "U+1D4AE", "U+1D4AF",
     "U+1D4B0", "U+1D4B1", "U+1D4B2", "U+1D4B3", "U+1D4B4", "U+1D4B5",
     "U+1D4B6", "U+1D4B7", "U+1D4B8", "U+1D4B9", "U+1D4BB", "U+1D4BD",
     "U+1D4BE", "U+1D4BF", "U+1D4C0", "U+1D4C1", "U+1D4C2", "U+1D4C3",
     "U+1D4C5", "U+1D4C6", "U+1D4C7", "U+1D4C8", "U+1D4C9", "U+1D4CA",
     "U+1D4CB", "U+1D4CC", "U+1D4CD", "U+1D4CE", "U+1D4CF", "U+1D504",
     "U+1D505", "U+1D507", "U+1D508", "U+1D509", "U+1D50A", "U+1D50D",
     "U+1D50E", "U+1D50F", "U+1D510", "U+1D511", "U+1D512", "U+1D513",
     "U+1D514", "U+1D516", "U+1D517", "U+1D518", "U+1D519", "U+1D51A",
     "U+1D51B", "U+1D51C", "U+1D538", "U+1D539", "U+1D53B", "U+1D53C",
     "U+1D53D", "U+1D53E", "U+1D540", "U+1D541", "U+1D542", "U+1D543",
     "U+1D544", "U+1D546", "U+1D54A", "U+1D54B", "U+1D54C", "U+1D54D",
     "U+1D54E", "U+1D54F", "U+1D550", "U+1D552", "U+1D553", "U+1D554",
     "U+1D555", "U+1D556", "U+1D557", "U+1D558", "U+1D559", "U+1D55A",
     "U+1D55B", "U+1D55C", "U+1D55D", "U+1D55E", "U+1D55F", "U+1D560",
     "U+1D561", "U+1D562", "U+1D563", "U+1D564", "U+1D565", "U+1D566",
     "U+1D567", "U+1D568", "U+1D569", "U+1D56A", "U+1D56B", "U+1D6E4",
     "U+1D6E5", "U+1D6E9", "U+1D6EC", "U+1D6EF", "U+1D6F1", "U+1D6F4",
     "U+1D6F6", "U+1D6F7", "U+1D6F9", "U+1D6FA", "U+1D6FC", "U+1D6FD",
     "U+1D6FE", "U+1D6FF", "U+1D700", "U+1D701", "U+1D702", "U+1D703",
     "U+1D704", "U+1D705", "U+1D706", "U+1D707", "U+1D708", "U+1D709",
     "U+1D70B", "U+1D70C", "U+1D70E", "U+1D70F", "U+1D710", "U+1D711",
     "U+1D712", "U+1D713", "U+1D714", "U+1D718", "U+1D719", "U+1D71A",
     "U+1D71B"}

\* \d of re
DecimalChars ==
    {"0", "1", "2", "3", "4", "5", "6", "7", "8", "9"}

(***************************************************************************)
(* The glyph tables.  A key that the source gives twice has its last      *)
(* value, as in a Python dict display.                                     *)
(***************************************************************************)
superscript_ht ==
       "1" :> <<"U+00B9">>
    @@ "2" :> <<"U+00B2">>
    @@ "3" :> <<"U+00B3">>
    @@ "4" :> <<"U+2074">>
    @@ "5" :> <<"U+2075">>
    @@ "6" :> <<"U+2076">>
    @@ "7" :> <<"U+2077">>
    @@ "8" :> <<"U+2078">>
    @@ "9" :> <<"U+2079">>
    @@ "+" :> <<"U+207A">>
    @@ "-" :> <<"U+207B">>
    @@ "=" :> <<"U+207C">>
    @@ "(" :> <<"U+207D">>
    @@ ")" :> <<"U+207E">>
    @@ "A" :> <<"U+1D2C">>
    @@ "B" :> <<"U+1D2E">>
    @@ "D" :> <<"U+1D30">>
    @@ "E" :> <<"U+1D31">>
    @@ "G" :> <<"U+1D33">>
    @@ "H" :> <<"U+1D34">>
    @@ "I" :> <<"U+1D35">>
    @@ "J" :> <<"U+1D36">>
    @@ "K" :> <<"U+1D37">>
    @@ "L" :> <<"U+1D38">>
    @@ "M" :> <<"U+1D39">>
    @@ "N" :> <<"U+1D3A">>
    @@ "O" :> <<"U+1D3C">>
    @@ "P" :> <<"U+1D3E">>
    @@ "R" :> <<"U+1D3F">>
    @@ "T" :> <<"U+1D40">>
    @@ "U" :> <<"U+1D41">>
    @@ "V" :> <<"U+2C7D">>
    @@ "W" :> <<"U+1D42">>
    @@ "a" :> <<"U+1D43">>
    @@ "b" :> <<"U+1D47">>
    @@ "c" :> <<"U+1D9C">>
    @@ "d" :> <<"U+1D48">>
    @@ "e" :> <<"U+1D49">>
    @@ "f" :> <<"U+1DA0">>
    @@ "g" :> <<"U+1D4D">>
    @@ "h" :> <<"U+02B0">>
    @@ "i" :> <<"U+2071">>
    @@ "j" :> <<"U+02B2">>
    @@ "k" :> <<"U+1D4F">>
    @@ "l" :> <<"U+02E1">>
    @@ "m" :> <<"U+1D50">>
    @@ "n" :> <<"U+207F">>
    @@ "o" :> <<"U+1D52">>
    @@ "p" :> <<"U+1D56">>
    @@ "r" :> <<"U+02B3">>
    @@ "s" :> <<"U+02E2">>
    @@ "t" :> <<"U+1D57">>
    @@ "u" :> <<"U+1D58">>
    @@ "v" :> <<"U+1D5B">>
    @@ "w" :> <<"U+02B7">>
    @@ "x" :> <<"U+02E3">>
    @@ "y" :> <<"U+02B8">>
    @@ "z" :> <<"U+1DBB">>
    @@ "U+03B2" :> <<"U+1D5D">>
    @@ "U+03B3" :> <<"U+1D5E">>
    @@ "U+03B4" :> <<"U+1D5F">>
    @@ "U+03B8" :> <<"U+1DBF">>
    @@ "U+03B9" :> <<"U+1DA5">>
    @@ "U+03C6" :> <<"U+1D60">>
    @@ "U+03C7" :> <<"U+1D61">>
    @@ "U+221E" :> <<" ", "U+1AB2">>

subscript_ht ==
       "0" :> <<"U+2080">>
    @@ "1" :> <<"U+2081">>
    @@ "2" :> <<"U+2082">>
    @@ "3" :> <<"U+2083">>
    @@ "4" :> <<"U+2084">>
    @@ "5" :> <<"U+2085">>
    @@ "6" :> <<"U+2086">>
    @@ "7" :> <<"U+2087">>
    @@ "8" :> <<"U+2088">>
    @@ "9" :> <<"U+2089">>
    @@ "+" :> <<"U+208A">>
    @@ "-" :> <<"U+208B">>
    @@ "=" :> <<"U+208C">>
    @@ "(" :> <<"U+208D">>
    @@ ")" :> <<"U+208E">>
    @@ "a" :> <<"U+2090">>
    @@ "e" :> <<"U+2091">>
    @@ "h" :> <<"U+2095">>
    @@ "i" :> <<"U+1D62">>
    @@ "j" :> <<"U+2C7C">>
    @@ "k" :> <<"U+2096">>
    @@ "l" :> <<"U+2097">>
    @@ "m" :> <<"U+2098">>
    @@ "n" :> <<"U+2099">>
    @@ "o" :> <<"U+2092">>
    @@ "p" :> <<"U+209A">>
    @@ "r" :> <<"U+1D63">>
    @@ "s" :> <<"U+209B">>
    @@ "t" :> <<"U+209C">>
    @@ "u" :> <<"U+1D64">>
    @@ "v" :> <<"U+1D65">>
    @@ "x" :> <<"U+2093">>
    @@ "U+0259" :> <<"U+2094">>
    @@ "U+03C1" :> <<"U+1D68">>
    @@ "U+03C6" :> <<"U+1D69">>
    @@ "U+03C7" :> <<"U+1D6A">>

math_map_items ==
    {<<<<"l", "d", "o", "t", "s">>, <<".", ".", ".">> >>,
     <<<<"t", "e", "x", "t", "b", "a", "r">>, <<"|">> >>,
     <<<<"t", "e", "x", "t", "b", "u", "l", "l", "e", "t">>, <<"U+2022">> >>,
     <<<<"t", "e", "x", "t", "b", "a", "c", "k", "s", "l", "a", "s", "h">>, <<"\\">> >>,
     <<<<"S">>, <<"U+00A7">> >>,
     <<<<"t", "e", "x", "t", "l", "e", "s", "s">>, <<"<">> >>,
     <<<<"t", "e", "x", "t", "g", "r", "e", "a", "t", "e", "r">>, <<">">> >>,
     <<<<"s", "i", "m">>, <<"U+223C">> >>,
     <<<<"b", "a", "c", "k", "s", "i", "m">>, <<"U+223D">> >>,
     <<<<"t", "i", "n", "y">>, <<>> >>,
     <<<<"s", "c", "r", "i", "p", "t", "s", "i", "z", "e">>, <<>> >>,
     <<<<"f", "o", "o", "t", "n", "o", "t", "e", "s", "i", "z", "e">>, <<>> >>,
     <<<<"s", "m", "a", "l", "l">>, <<>> >>,
     <<<<"n", "o", "r", "m", "a", "l", "s", "i", "z", "e">>, <<>> >>,
     <<<<"l", "a", "r", "g", "e">>, <<>> >>,
     <<<<"g", "e">>, <<">">> >>,
     <<<<"g", "e", "q">>, <<"U+2265">> >>,
     <<<<"l", "e">>, <<"<">> >>,
     <<<<"l", "e", "q">>, <<"U+2264">> >>,
     <<<<"n", "e", "q">>, <<"U+2260">> >>,
     <<<<"d", "o", "t", "e", "q">>, <<"U+2250">> >>,
     <<<<"a", "p", "p", "r", "o", "x">>, <<"U+2248">> >>,
     <<<<"t", "i", "m", "e", "s">>, <<"U+2A2F">> >>,
     <<<<"d", "i", "v">>, <<"U+00F7">> >>,
     <<<<"p", "m">>, <<"U+00B1">> >>,
     <<<<"m", "p">>, <<"U+2213">> >>,
     <<<<"c", "d", "o", "t">>, <<"U+00B7">> >>,
     <<<<"c", "i", "r", "c">>, <<"U+2218">> >>,
     <<<<"a", "s", "t">>, <<"U+2217">> >>,
     <<<<"s", "m", "a", "l", "l", "s", "e", "t", "m", "i", "n", "u", "s">>, <<"U+2216">> >>,
     <<<<"s", "l", "a", "s", "h">>, <<"U+2215">> >>,
     <<<<"p", "r", "i", "m", "e">>, <<"U+2032">> >>,
     <<<<"t", "e", "x", "t", "p", "r", "i", "m", "e">>, <<"U+2032">> >>,
     <<<<"s", "e", "c", "o", "n", "d">>, <<"U+2032", "U+2032">> >>,
     <<<<"t", "h", "i", "r", "d">>, <<"U+2032", "U+2032", "U+2032">> >>,
     <<<<"f", "o", "u", "r", "t", "h">>, <<"U+2032", "U+2032", "U+2032", "U+2032">> >>,
     <<<<"b", "a", "c", "k", "p", "r", "i", "m", "e">>, <<"U+2035">> >>,
     <<<<"d", "a", "g", "g", "e", "r">>, <<"U+2020">> >>,
     <<<<"d", "d", "a", "g", "g", "e", "r">>, <<"U+2021">> >>,
     <<<<"b", "u", "l", "l", "e", "t">>, <<"U+2022">> >>,
     <<<<"d", "o", "t", "s">>, <<"U+2026">> >>,
     <<<<"c", "a", "t">>, <<"U+2040">> >>,
     <<<<"c", "d", "o", "t", "s">>, <<"U+22EF">> >>,
     <<<<"i", "n", "f", "t", "y">>, <<"U+221E">> >>,
     <<<<"n", "e", "g">>, <<"U+00AC">> >>,
     <<<<"w", "e", "d", "g", "e">>, <<"U+2227">> >>,
     <<<<"v", "e", "e">>, <<"U+2228">> >>,
     <<<<"f", "o", "r", "a", "l", "l">>, <<"U+2200">> >>,
     <<<<"i", "n">>, <<"U+2208">> >>,
     <<<<"n", "i">>, <<"U+220B">> >>,
     <<<<"n", "n", "i">>, <<"U+220C">> >>,
     <<<<"r", "i", "g", "h", "t", "a", "r", "r", "o", "w">>, <<"U+2192">> >>,
     <<<<"l", "e", "f", "t", "a", "r", "r", "o", "w">>, <<"U+2190">> >>,
     <<<<"l", "e", "f", "t", "r", "i", "g", "h", "t", "a", "r", "r", "o", "w">>, <<"U+2194">> >>,
     <<<<"u", "p", "a", "r", "r", "o", "w">>, <<"U+2191">> >>,
     <<<<"d", "o", "w", "n", "a", "r", "r", "o", "w">>, <<"U+2193">> >>,
     <<<<"u", "p", "d", "o", "w", "n", "a", "r", "r", "o", "w">>, <<"U+2195">> >>,
     <<<<"n", "w", "a", "r", "r", "o", "w">>, <<"U+2196">> >>,
     <<<<"n", "e", "a", "r", "r", "o", "w">>, <<"U+2197">> >>,
     <<<<"s", "e", "a", "r", "r", "o", "w">>, <<"U+2198">> >>,
     <<<<"s", "w", "a", "r", "r", "o", "w">>, <<"U+2199">> >>,
     <<<<"n", "l", "e", "f", "t", "a", "r", "r", "o", "w">>, <<"U+219A">> >>,
     <<<<"n", "r", "i", "g", "h", "t", "a", "r", "r", "o", "w">>, <<"U+219B">> >>,
     <<<<"t", "w", "o", "h", "e", "a", "d", "l", "e", "f", "t", "a", "r", "r", "o", "w">>, <<"U+219E">> >>,
     <<<<"t", "w", "o", "h", "e", "a", "d", "r", "i", "g", "h", "t", "a", "r", "r", "o", "w">>, <<"U+21A0">> >>,
     <<<<"l", "e", "f", "t", "a", "r", "r", "o", "w", "t", "a", "i", "l">>, <<"U+21A2">> >>,
     <<<<"r", "i", "g", "h", "t", "a", "r", "r", "o", "w", "t", "a", "i", "l">>, <<"U+21A3">> >>,
     <<<<"m", "a", "p", "s", "f", "r", "o", "m">>, <<"U+21A4">> >>,
     <<<<"M", "a", "p", "s", "U", "p">>, <<"U+21A5">> >>,
     <<<<"m", "a", "p", "s", "t", "o">>, <<"U+21A6">> >>,
     <<<<"M", "a", "p", "s", "D", "o", "w", "n">>, <<"U+21A7">> >>,
     <<<<"h", "o", "o", "k", "l", "e", "f", "t", "a", "r", "r", "o", "w">>, <<"U+21A9">> >>,
     <<<<"h", "o", "o", "k", "r", "i", "g", "h", "t", "a", "r", "r", "o", "w">>, <<"U+21AA">> >>,
     <<<<"l", "o", "o", "p", "a", "r", "r", "o", "w", "l", "e", "f", "t">>, <<"U+21AB">> >>,
     <<<<"l", "o", "o", "p", "a", "r", "r", "o", "w", "r", "i", "g", "h", "t">>, <<"U+21AC">> >>,
     <<<<"l", "e", "f", "t", "r", "i", "g", "h", "t", "s", "q", "u", "i", "g", "a", "r", "r", "o", "w">>, <<"U+21AD">> >>,
     <<<<"n", "l", "e", "f", "t", "r", "i", "g", "h", "t", "a", "r", "r", "o", "w">>, <<"U+21AE">> >>,
     <<<<"l", "i", "g", "h", "t", "n", "i", "n", "g">>, <<"U+21AF">> >>,
     <<<<"L", "s", "h">>, <<"U+21B0">> >>,
     <<<<"R", "s", "h">>, <<"U+21B1">> >>,
     <<<<"d", "l", "s", "h">>, <<"U+21B2">> >>,
     <<<<"d", "r", "s", "h">>, <<"U+21B3">> >>,
     <<<<"c", "u", "r", "v", "e", "a", "r", "r", "o", "w", "l", "e", "f", "t">>, <<"U+21B6">> >>,
     <<<<"c", "u", "r", "v", "e", "a", "r", "r", "o", "w", "r", "i", "g", "h", "t">>, <<"U+21B7">> >>,
     <<<<"c", "i", "r", "c", "l", "e", "a", "r", "r", "o", "w", "l", "e", "f", "t">>, <<"U+21BA">> >>,
     <<<<"c", "i", "r", "c", "l", "e", "a", "r", "r", "o", "w", "r", "i", "g", "h", "t">>, <<"U+21BB">> >>,
     <<<<"l", "e", "f", "t", "h", "a", "r", "p", "o", "o", "n", "u", "p">>, <<"U+21BC">> >>,
     <<<<"l", "e", "f", "t", "h", "a", "r", "p", "o", "o", "n", "d", "o", "w", "n">>, <<"U+21BD">> >>,
     <<<<"u", "p", "h", "a", "r", "p", "o", "o", "n", "r", "i", "g", "h", "t">>, <<"U+21BE">> >>,
     <<<<"u", "p", "h", "a", "r", "p", "o", "o", "n", "l", "e", "f", "t">>, <<"U+21BF">> >>,
     <<<<"r", "i", "g", "h", "t", "h", "a", "r", "p", "o", "o", "n", "u", "p">>, <<"U+21C0">> >>,
     <<<<"r", "i", "g", "h", "t", "h", "a", "r", "p", "o", "o", "n", "d", "o", "w", "n">>, <<"U+21C1">> >>,
     <<<<"d", "o", "w", "n", "h", "a", "r", "p", "o", "o", "n", "r", "i", "g", "h", "t">>, <<"U+21C2">> >>,
     <<<<"d", "o", "w", "n", "h", "a", "r", "p", "o", "o", "n", "l", "e", "f", "t">>, <<"U+21C3">> >>,
     <<<<"r", "i", "g", "h", "t", "l", "e", "f", "t", "a", "r", "r", "o", "w", "s">>, <<"U+21C4">> >>,
     <<<<"u", "p", "d", "o", "w", "n", "a", "r", "r", "o", "w", "s">>, <<"U+21C5">> >>,
     <<<<"l", "e", "f", "t", "r", "i", "g", "h", "t", "a", "r", "r", "o", "w", "s">>, <<"U+21C6">> >>,
     <<<<"l", "e", "f", "t", "l", "e", "f", "t", "a", "r", "r", "o", "w", "s">>, <<"U+21C7">> >>,
     <<<<"u", "p", "u", "p", "a", "r", "r", "o", "w", "s">>, <<"U+21C8">> >>,
     <<<<"r", "i", "g", "h", "t", "r", "i", "g", "h", "t", "a", "r", "r", "o", "w", "s">>, <<"U+21C9">> >>,
     <<<<"d", "o", "w", "n", "d", "o", "w", "n", "a", "r", "r", "o", "w", "s">>, <<"U+21CA">> >>,
     <<<<"l", "e", "f", "t", "r", "i", "g", "h", "t", "h", "a", "r", "p", "o", "o", "n", "s">>, <<"U+21CB">> >>,
     <<<<"r", "i", "g", "h", "t", "l", "e", "f", "t", "h", "a", "r", "p", "o", "o", "n", "s">>, <<"U+21CC">> >>,
     <<<<"n", "L", "e", "f", "t", "a", "r", "r", "o", "w">>, <<"U+21CD">> >>,
     <<<<"n", "L", "e", "f", "t", "r", "i", "g", "h", "t", "a", "r", "r", "o", "w">>, <<"U+21CE">> >>,
     <<<<"n", "R", "i", "g", "h", "t", "a", "r", "r", "o", "w">>, <<"U+21CF">> >>,
     <<<<"L", "e", "f", "t", "a", "r", "r", "o", "w">>, <<"U+21D0">> >>,
     <<<<"U", "p", "a", "r", "r", "o", "w">>, <<"U+21D1">> >>,
     <<<<"R", "i", "g", "h", "t", "a", "r", "r", "o", "w">>, <<"U+21D2">> >>,
     <<<<"D", "o", "w", "n", "a", "r", "r", "o", "w">>, <<"U+21D3">> >>,
     <<<<"L", "e", "f", "t", "r", "i", "g", "h", "t", "a", "r", "r", "o", "w">>, <<"U+21D4">> >>,
     <<<<"U", "p", "d", "o", "w", "n", "a", "r", "r", "o", "w">>, <<"U+21D5">> >>,
     <<<<"N", "w", "a", "r", "r", "o", "w">>, <<"U+21D6">> >>,
     <<<<"N", "e", "a", "r", "r", "o", "w">>, <<"U+21D7">> >>,
     <<<<"S", "e", "a", "r", "r", "o", "w">>, <<"U+21D8">> >>,
     <<<<"S", "w", "a", "r", "r", "o", "w">>, <<"U+21D9">> >>,
     <<<<"L", "l", "e", "f", "t", "a", "r", "r", "o", "w">>, <<"U+21DA">> >>,
     <<<<"R", "r", "i", "g", "h", "t", "a", "r", "r", "o", "w">>, <<"U+21DB">> >>,
     <<<<"l", "e", "f", "t", "s", "q", "u", "i", "g", "a", "r", "r", "o", "w">>, <<"U+21DC">> >>,
     <<<<"r", "i", "g", "h", "t", "s", "q", "u", "i", "g", "a", "r", "r", "o", "w">>, <<"U+21DD">> >>,
     <<<<"d", "a", "s", "h", "l", "e", "f", "t", "a", "r", "r", "o", "w">>, <<"U+21E0">> >>,
     <<<<"d", "a", "s", "h", "r", "i", "g", "h", "t", "a", "r", "r", "o", "w">>, <<"U+21E2">> >>,
     <<<<"L", "e", "f", "t", "A", "r", "r", "o", "w", "B", "a", "r">>, <<"U+21E4">> >>,
     <<<<"R", "i", "g", "h", "t", "A", "r", "r", "o", "w", "B", "a", "r">>, <<"U+21E5">> >>,
     <<<<"d", "o", "w", "n", "u", "p", "a", "r", "r", "o", "w", "s">>, <<"U+21F5">> >>,
     <<<<"p", "f", "u", "n">>, <<"U+21F8">> >>,
     <<<<"f", "f", "u", "n">>, <<"U+21FB">> >>,
     <<<<"l", "e", "f", "t", "a", "r", "r", "o", "w", "t", "r", "i", "a", "n", "g", "l", "e">>, <<"U+21FD">> >>,
     <<<<"r", "i", "g", "h", "t", "a", "r", "r", "o", "w", "t", "r", "i", "a", "n", "g", "l", "e">>, <<"U+21FE">> >>,
     <<<<"l", "e", "f", "t", "r", "i", "g", "h", "t", "a", "r", "r", "o", "w", "t", "r", "i", "a", "n", "g", "l", "e">>, <<"U+21FF">> >>,
     <<<<"s", "u", "b", "s", "e", "t">>, <<"U+2282">> >>,
     <<<<"s", "u", "b", "s", "e", "t", "e", "q">>, <<"U+2286">> >>,
     <<<<"s", "u", "p", "s", "e", "t">>, <<"U+2283">> >>,
     <<<<"s", "u", "p", "s", "e", "t", "e", "q">>, <<"U+2287">> >>,
     <<<<"p", "r", "e", "c">>, <<"U+227A">> >>,
     <<<<"s", "u", "c", "c">>, <<"U+227B">> >>,
     <<<<"e", "x", "i", "s", "t", "s">>, <<"U+2203">> >>,
     <<<<"n", "e", "x", "i", "s", "t", "s">>, <<"U+2204">> >>,
     <<<<"n", "o", "t", "i", "n">>, <<"U+2209">> >>,
     <<<<"c", "u", "p">>, <<"U+222A">> >>,
     <<<<"c", "a", "p">>, <<"U+2229">> >>,
     <<<<"m", "i", "d">>, <<"U+2223">> >>,
     <<<<"n", "m", "i", "d">>, <<"U+2224">> >>,
     <<<<"p", "a", "r", "a", "l", "l", "e", "l">>, <<"U+2225">> >>,
     <<<<"n", "p", "a", "r", "a", "l", "l", "e", "l">>, <<"U+2226">> >>,
     <<<<"r", "i", "g", "h", "t", "a", "n", "g", "l", "e">>, <<"U+221F">> >>,
     <<<<"a", "n", "g", "l", "e">>, <<"U+2220">> >>,
     <<<<"m", "e", "a", "s", "u", "r", "e", "d", "a", "n", "g", "l", "e">>, <<"U+2221">> >>,
     <<<<"s", "p", "h", "e", "r", "i", "c", "a", "l", "a", "n", "g", "l", "e">>, <<"U+2222">> >>,
     <<<<"p", "r", "o", "p", "t", "o">>, <<"U+221D">> >>,
     <<<<"v", "d", "o", "t", "s">>, <<"U+22EE">> >>,
     <<<<"d", "i", "a", "m", "e", "t", "e", "r">>, <<"U+2205">> >>,
     <<<<"l", "c", "e", "i", "l">>, <<"U+2308">> >>,
     <<<<"r", "c", "e", "i", "l">>, <<"U+2309">> >>,
     <<<<"l", "f", "l", "o", "o", "r">>, <<"U+230A">> >>,
     <<<<"r", "f", "l", "o", "o", "r">>, <<"U+230B">> >>,
     <<<<"v", "a", "r", "n", "o", "t", "h", "i", "n", "g">>, <<"U+2205">> >>,
     <<<<"s", "p", "t", "i", "l", "d", "e">>, <<"~">> >>,
     <<<<"c", "e", "n", "t">>, <<"U+00A2">> >>,
     <<<<"p", "o", "u", "n", "d", "s">>, <<"U+00A3">> >>,
     <<<<"y", "e", "n">>, <<"U+00A5">> >>,
     <<<<"b", "a", "c", "k", "s", "l", "a", "s", "h">>, <<"\\">> >>,
     <<<<"s", "p", "d", "d", "o", "t">>, <<"U+0308">> >>,
     <<<<"s", "p", "h", "a", "t">>, <<"^">> >>,
     <<<<"M", "i", "c", "r", "o">>, <<"U+03BC">> >>,
     <<<<"e", "t", "h">>, <<"U+00F0">> >>,
     <<<<"i", "m", "a", "t", "h">>, <<"U+0131">> >>,
     <<<<"j", "m", "a", "t", "h">>, <<"U+0237">> >>,
     <<<<"c", "i", "r", "c", "l", "e", "d", "R">>, <<"U+00AE">> >>,
     <<<<"t", "h", "e", "r", "e", "f", "o", "r", "e">>, <<"U+2234">> >>,
     <<<<"b", "e", "c", "a", "u", "s", "e">>, <<"U+2235">> >>,
     <<<<"P", "r", "o", "p", "o", "r", "t", "i", "o", "n">>, <<"U+2237">> >>,
     <<<<"e", "q", "c", "o", "l", "o", "n">>, <<"U+2239">> >>,
     <<<<"a", "l", "p", "h", "a">>, <<"U+1D6FC">> >>,
     <<<<"b", "e", "t", "a">>, <<"U+1D6FD">> >>,
     <<<<"v", "a", "r", "b", "e", "t", "a">>, <<"U+03B2">> >>,
     <<<<"g", "a", "m", "m", "a">>, <<"U+1D6FE">> >>,
     <<<<"d", "e", "l", "t", "a">>, <<"U+1D6FF">> >>,
     <<<<"e", "p", "s", "i", "l", "o", "n">>, <<"U+1D700">> >>,
     <<<<"v", "a", "r", "e", "p", "s", "i", "l", "o", "n">>, <<"U+03B5">> >>,
     <<<<"b", "a", "c", "k", "e", "p", "s", "i", "l", "o", "n">>, <<"U+03F6">> >>,
     <<<<"z", "e", "t", "a">>, <<"U+1D701">> >>,
     <<<<"e", "t", "a">>, <<"U+1D702">> >>,
     <<<<"t", "h", "e", "t", "a">>, <<"U+1D703">> >>,
     <<<<"v", "a", "r", "t", "h", "e", "t", "a">>, <<"U+03B8">> >>,
     <<<<"i", "o", "t", "a">>, <<"U+1D704">> >>,
     <<<<"k", "a", "p", "p", "a">>, <<"U+1D705">> >>,
     <<<<"v", "a", "r", "k", "a", "p", "p", "a">>, <<"U+1D718">> >>,
     <<<<"l", "a", "m", "b", "d", "a">>, <<"U+1D706">> >>,
     <<<<"m", "u">>, <<"U+1D707">> >>,
     <<<<"n", "u">>, <<"U+1D708">> >>,
     <<<<"x", "i">>, <<"U+1D709">> >>,
     <<<<"p", "i">>, <<"U+1D70B">> >>,
     <<<<"v", "a", "r", "p", "i">>, <<"U+1D71B">> >>,
     <<<<"r", "h", "o">>, <<"U+1D70C">> >>,
     <<<<"v", "a", "r", "r", "h", "o">>, <<"U+1D71A">> >>,
     <<<<"s", "i", "g", "m", "a">>, <<"U+1D70E">> >>,
     <<<<"v", "a", "r", "s", "i", "g", "m", "a">>, <<"U+03C2">> >>,
     <<<<"t", "a", "u">>, <<"U+1D70F">> >>,
     <<<<"u", "p", "s", "i", "l", "o", "n">>, <<"U+1D710">> >>,
     <<<<"p", "h", "i">>, <<"U+1D719">> >>,
     <<<<"v", "a", "r", "p", "h", "i">>, <<"U+1D711">> >>,
     <<<<"c", "h", "i">>, <<"U+1D712">> >>,
     <<<<"p", "s", "i">>, <<"U+1D713">> >>,
     <<<<"o", "m", "e", "g", "a">>, <<"U+1D714">> >>,
     <<<<"G", "a", "m", "m", "a">>, <<"U+1D6E4">> >>,
     <<<<"D", "e", "l", "t", "a">>, <<"U+1D6E5">> >>,
     <<<<"T", "h", "e", "t", "a">>, <<"U+1D6E9">> >>,
     <<<<"L", "a", "m", "b", "d", "a">>, <<"U+1D6EC">> >>,
     <<<<"X", "i">>, <<"U+1D6EF">> >>,
     <<<<"P", "i">>, <<"U+1D6F1">> >>,
     <<<<"S", "i", "g", "m", "a">>, <<"U+1D6F4">> >>,
     <<<<"U", "p", "s", "i", "l", "o", "n">>, <<"U+1D6F6">> >>,
     <<<<"P", "h", "i">>, <<"U+1D6F7">> >>,
     <<<<"P", "s", "i">>, <<"U+1D6F9">> >>,
     <<<<"O", "m", "e", "g", "a">>, <<"U+1D6FA">> >>,
     <<<<"n", "a", "b", "l", "a">>, <<"U+2207">> >>,
     <<<<"p", "a", "r", "t", "i", "a", "l">>, <<"U+2202">> >>,
     <<<<"i", "n", "t">>, <<"U+222B">> >>,
     <<<<"i", "i", "n", "t">>, <<"U+222B", "U+222B", "U+222B">> >>,
     <<<<"o", "i", "n", "t">>, <<"U+222E">> >>,
     <<<<"o", "i", "i", "n", "t">>, <<"U+222E", "U+222E">> >>,
     <<<<"E", "u", "l", "e", "r">>, <<"U+0190">> >>,
     <<<<"I", "m">>, <<"U+2111">> >>,
     <<<<"e", "l", "l">>, <<"U+2113">> >>,
     <<<<"w", "p">>, <<"U+2118">> >>,
     <<<<"R", "e">>, <<"U+211C">> >>,
     <<<<"t", "c", "o", "h", "m">>, <<"U+2126">> >>,
     <<<<"m", "h", "o">>, <<"U+2127">> >>,
     <<<<"A", "n", "g", "s", "t", "r", "o", "e", "m">>, <<"U+212B">> >>,
     <<<<"F", "i", "n", "v">>, <<"U+2132">> >>,
     <<<<"a", "l", "e", "p", "h">>, <<"U+05D0">> >>,
     <<<<"b", "e", "t", "h">>, <<"U+05D1">> >>,
     <<<<"g", "i", "m", "e", "l">>, <<"U+05D2">> >>,
     <<<<"d", "a", "l", "e", "t", "h">>, <<"U+05D3">> >>,
     <<<<"Y", "u", "p">>, <<"U+2144">> >>,
     <<<<"c", "o", "m", "p", "l", "e", "m", "e", "n", "t">>, <<"U+2201">> >>,
     <<<<"d", "o", "t", "p", "l", "u", "s">>, <<"U+2214">> >>,
     <<<<"h", "s", "l", "a", "s", "h">>, <<"U+210F">> >>,
     <<<<"i", "n", "v", "a", "m", "p">>, <<"U+214B">> >>,
     <<<<"g", "r", "a", "v", "e">>, <<"U+0300">> >>,
     <<<<"a", "c", "u", "t", "e">>, <<"U+0301">> >>,
     <<<<"h", "a", "t">>, <<"U+0302">> >>,
     <<<<"t", "i", "l", "d", "e">>, <<"U+0303">> >>,
     <<<<"b", "a", "r">>, <<"U+0304">> >>,
     <<<<"b", "r", "e", "v", "e">>, <<"U+0306">> >>,
     <<<<"d", "o", "t">>, <<"U+0307">> >>,
     <<<<"d", "d", "o", "t">>, <<"U+0308">> >>,
     <<<<"d", "d", "d", "o", "t">>, <<"U+20DC">> >>,
     <<<<"m", "a", "t", "h", "r", "i", "n", "g">>, <<"U+030A">> >>,
     <<<<"c", "h", "e", "c", "k">>, <<"U+030C">> >>,
     <<<<"n", "o", "t">>, <<"U+0338">> >>,
     <<<<"t", "e", "x", "t", "s", "t", "y", "l", "e">>, <<>> >>,
     <<<<"s", "q", "r", "t">>, <<"U+221A">> >>,
     <<<<"f", "r", "a", "c">>, <<" ", "/", " ">> >>,
     <<<<"s", "u", "m">>, <<"U+2211">> >>,
     <<<<"p", "r", "o", "d">>, <<"U+220F">> >>,
     <<<<"c", "o", "p", "r", "o", "d">>, <<"U+2210">> >>,
     <<<<"l", "v", "e", "c">>, <<"U+20D0">> >>,
     <<<<"v", "e", "c">>, <<"U+20D1">> >>,
     <<<<"l", "e", "f", "t">>, <<>> >>,
     <<<<"r", "i", "g", "h", "t">>, <<>> >>,
     <<<<"b", "i", "g", "l">>, <<>> >>,
     <<<<"b", "i", "g", "r">>, <<>> >>,
     <<<<"l", "b", "r", "a", "c", "e">>, <<"{">> >>,
     <<<<"r", "b", "r", "a", "c", "e">>, <<"}">> >>,
     <<<<"l", "b", "r", "a", "c", "k">>, <<"[">> >>,
     <<<<"r", "b", "r", "a", "c", "k">>, <<"]">> >>,
     <<<<"l", "a", "n", "g", "l", "e">>, <<"U+27E8">> >>,
     <<<<"r", "a", "n", "g", "l", "e">>, <<"U+27E9">> >>,
     <<<<"v", "e", "r", "t">>, <<"|">> >>,
     <<<<"V", "e", "r", "t">>, <<"U+2016">> >>,
     <<<<"C", "a", "p", "i", "t", "a", "l", "D", "i", "f", "f", "e", "r", "e", "n", "t", "i", "a", "l", "D">>, <<"U+2145">> >>,
     <<<<"D", "i", "f", "f", "e", "r", "e", "n", "t", "i", "a", "l", "D">>, <<"U+2146">> >>,
     <<<<"E", "x", "p", "o", "n", "e", "n", "t", "i", "a", "l", "E">>, <<"U+2147">> >>,
     <<<<"C", "o", "m", "p", "l", "e", "x", "I">>, <<"U+2148">> >>,
     <<<<"C", "o", "m", "p", "l", "e", "x", "J">>, <<"U+2149">> >>,
     <<<<"o", "v", "e", "r">>, <<"/">> >>,
     <<<<"s", "t", "y", "l", "e">>, <<>> >>}

math_map ==
    [name \in {kv[1] : kv \in math_map_items} |->
        (CHOOSE kv \in math_map_items : kv[1] = name)[2]]

mathcal_map ==
       "A" :> <<"U+1D49C">>
    @@ "B" :> <<"U+212C">>
    @@ "C" :> <<"U+1D49E">>
    @@ "D" :> <<"U+1D49F">>
    @@ "E" :> <<"U+2130">>
    @@ "F" :> <<"U+2131">>
    @@ "G" :> <<"U+1D4A2">>
    @@ "H" :> <<"U+210B">>
    @@ "I" :> <<"U+2110">>
    @@ "J" :> <<"U+1D4A5">>
    @@ "K" :> <<"U+1D4A6">>
    @@ "L" :> <<"U+2112">>
    @@ "M" :> <<"U+2133">>
    @@ "N" :> <<"U+1D4A9">>
    @@ "O" :> <<"U+1D4AA">>
    @@ "P" :> <<"U+1D4AB">>
    @@ "Q" :> <<"U+1D4AC">>
    @@ "R" :> <<"U+211B">>
    @@ "S" :> <<"U+1D4AE">>
    @@ "T" :> <<"U+1D4AF">>
    @@ "U" :> <<"U+1D4B0">>
    @@ "V" :> <<"U+1D4B1">>
    @@ "W" :> <<"U+1D4B2">>
    @@ "X" :> <<"U+1D4B3">>
    @@ "Y" :> <<"U+1D4B4">>
    @@ "Z" :> <<"U+1D4B5">>
    @@ "a" :> <<"U+1D4B6">>
    @@ "b" :> <<"U+1D4B7">>
    @@ "c" :> <<"U+1D4B8">>
    @@ "d" :> <<"U+1D4B9">>
    @@ "e" :> <<"U+212F">>
    @@ "f" :> <<"U+1D4BB">>
    @@ "g" :> <<"U+210A">>
    @@ "h" :> <<"U+1D4BD">>
    @@ "i" :> <<"U+1D4BE">>
    @@ "j" :> <<"U+1D4BF">>
    @@ "k" :> <<"U+1D4C0">>
    @@ "l" :> <<"U+1D4C1">>
    @@ "m" :> <<"U+1D4C2">>
    @@ "n" :> <<"U+1D4C3">>
    @@ "o" :> <<"U+2134">>
    @@ "p" :> <<"U+1D4C5">>
    @@ "q" :> <<"U+1D4C6">>
    @@ "r" :> <<"U+1D4C7">>
    @@ "s" :> <<"U+1D4C8">>
    @@ "t" :> <<"U+1D4C9">>
    @@ "u" :> <<"U+1D4CA">>
    @@ "v" :> <<"U+1D4CB">>
    @@ "w" :> <<"U+1D4CC">>
    @@ "x" :> <<"U+1D4CD">>
    @@ "y" :> <<"U+1D4CE">>
    @@ "z" :> <<"U+1D4CF">>

mathfrak_map ==
       "A" :> <<"U+1D504">>
    @@ "B" :> <<"U+1D505">>
    @@ "C" :> <<"U+212D">>
    @@ "D" :> <<"U+1D507">>
    @@ "E" :> <<"U+1D508">>
    @@ "F" :> <<"U+1D509">>
    @@ "G" :> <<"U+1D50A">>
    @@ "H" :> <<"U+210C">>
    @@ "J" :> <<"U+1D50D">>
    @@ "K" :> <<"U+1D50E">>
    @@ "L" :> <<"U+1D50F">>
    @@ "M" :> <<"U+1D510">>
    @@ "N" :> <<"U+1D511">>
    @@ "O" :> <<"U+1D512">>
    @@ "P" :> <<"U+1D513">>
    @@ "Q" :> <<"U+1D514">>
    @@ "S" :> <<"U+1D516">>
    @@ "T" :> <<"U+1D517">>
    @@ "U" :> <<"U+1D518">>
    @@ "V" :> <<"U+1D519">>
    @@ "W" :> <<"U+1D51A">>
    @@ "X" :> <<"U+1D51B">>
    @@ "Y" :> <<"U+1D51C">>
    @@ "Z" :> <<"U+2128">>

mathbb_map ==
       <<"A">> :> <<"U+1D538">>
    @@ <<"B">> :> <<"U+1D539">>
    @@ <<"C">> :> <<"U+2102">>
    @@ <<"D">> :> <<"U+1D53B">>
    @@ <<"E">> :> <<"U+1D53C">>
    @@ <<"F">> :> <<"U+1D53D">>
    @@ <<"G">> :> <<"U+1D53E">>
    @@ <<"H">> :> <<"U+210D">>
    @@ <<"I">> :> <<"U+1D540">>
    @@ <<"J">> :> <<"U+1D541">>
    @@ <<"K">> :> <<"U+1D542">>
    @@ <<"L">> :> <<"U+1D543">>
    @@ <<"M">> :> <<"U+1D544">>
    @@ <<"N">> :> <<"U+2115">>
    @@ <<"O">> :> <<"U+1D546">>
    @@ <<"P">> :> <<"U+2119">>
    @@ <<"Q">> :> <<"U+211A">>
    @@ <<"R">> :> <<"U+211D">>
    @@ <<"S">> :> <<"U+1D54A">>
    @@ <<"T">> :> <<"U+1D54B">>
    @@ <<"U">> :> <<"U+1D54C">>
    @@ <<"V">> :> <<"U+1D54D">>
    @@ <<"W">> :> <<"U+1D54E">>
    @@ <<"X">> :> <<"U+1D54F">>
    @@ <<"Y">> :> <<"U+1D550">>
    @@ <<"Z">> :> <<"U+2124">>
    @@ <<"a">> :> <<"U+1D552">>
    @@ <<"b">> :> <<"U+1D553">>
    @@ <<"c">> :> <<"U+1D554">>
    @@ <<"d">> :> <<"U+1D555">>
    @@ <<"e">> :> <<"U+1D556">>
    @@ <<"f">> :> <<"U+1D557">>
    @@ <<"g">> :> <<"U+1D558">>
    @@ <<"h">> :> <<"U+1D559">>
    @@ <<"i">> :> <<"U+1D55A">>
    @@ <<"j">> :> <<"U+1D55B">>
    @@ <<"k">> :> <<"U+1D55C">>
    @@ <<"l">> :> <<"U+1D55D">>
    @@ <<"m">> :> <<"U+1D55E">>
    @@ <<"n">> :> <<"U+1D55F">>
    @@ <<"o">> :> <<"U+1D560">>
    @@ <<"p">> :> <<"U+1D561">>
    @@ <<"q">> :> <<"U+1D562">>
    @@ <<"r">> :> <<"U+1D563">>
    @@ <<"s">> :> <<"U+1D564">>
    @@ <<"t">> :> <<"U+1D565">>
    @@ <<"u">> :> <<"U+1D566">>
    @@ <<"v">> :> <<"U+1D567">>
    @@ <<"w">> :> <<"U+1D568">>
    @@ <<"x">> :> <<"U+1D569">>
    @@ <<"y">> :> <<"U+1D56A">>
    @@ <<"z">> :> <<"U+1D56B">>
    @@ <<"p", "i">> :> <<"U+213C">>
    @@ <<"g", "a", "m", "m", "a">> :> <<"U+213D">>
    @@ <<"G", "a", "m", "m", "a">> :> <<"U+213E">>
    @@ <<"P", "i">> :> <<"U+213F">>
    @@ <<"S", "i", "g", "m", "a">> :> <<"U+2140">>

MagicChars ==
    <<"U+10203E", "U+10203F", "U+102040", "U+102041", "U+102042", "U+102043", "U+102044", "U+102045">>

AsciiChars ==
    <<" ", "!", "\"", "#", "$", "%", "&", "'", "(", ")", "*", "+",
      ",", "-", ".", "/", "0", "1", "2", "3", "4", "5", "6", "7",
      "8", "9", ":", ";", "<", "=", ">", "?", "@", "A", "B", "C",
      "D", "E", "F", "G", "H", "I", "J", "K", "L", "M", "N", "O",
      "P", "Q", "R", "S", "T", "U", "V", "W", "X", "Y", "Z", "[",
      "\\", "]", "^", "_", "U+0060", "a", "b", "c", "d", "e", "f", "g",
      "h", "i", "j", "k", "l", "m", "n", "o", "p", "q", "r", "s",
      "t", "u", "v", "w", "x", "y", "z", "{", "|", "}", "~">>

EntityLetters ==
    {"a", "g", "l", "m", "o", "p", "s", "t"}

html5_items ==
    {<<<<"a", "m", "a", "l", "g", ";">>, <<"U+2A3F">> >>,
     <<<<"a", "m", "p">>, <<"&">> >>,
     <<<<"a", "m", "p", ";">>, <<"&">> >>,
     <<<<"a", "p", ";">>, <<"U+2248">> >>,
     <<<<"a", "p", "o", "s", ";">>, <<"'">> >>,
     <<<<"a", "s", "t", ";">>, <<"*">> >>,
     <<<<"g", "a", "m", "m", "a", ";">>, <<"U+03B3">> >>,
     <<<<"g", "a", "p", ";">>, <<"U+2A86">> >>,
     <<<<"g", "g", ";">>, <<"U+226B">> >>,
     <<<<"g", "g", "g", ";">>, <<"U+22D9">> >>,
     <<<<"g", "l", ";">>, <<"U+2277">> >>,
     <<<<"g", "l", "a", ";">>, <<"U+2AA5">> >>,
     <<<<"g", "t">>, <<">">> >>,
     <<<<"g", "t", ";">>, <<">">> >>,
     <<<<"l", "a", "p", ";">>, <<"U+2A85">> >>,
     <<<<"l", "a", "t", ";">>, <<"U+2AAB">> >>,
     <<<<"l", "g", ";">>, <<"U+2276">> >>,
     <<<<"l", "l", ";">>, <<"U+226A">> >>,
     <<<<"l", "t">>, <<"<">> >>,
     <<<<"l", "t", ";">>, <<"<">> >>,
     <<<<"m", "a", "l", "t", ";">>, <<"U+2720">> >>,
     <<<<"m", "a", "p", ";">>, <<"U+21A6">> >>,
     <<<<"m", "a", "p", "s", "t", "o", ";">>, <<"U+21A6">> >>,
     <<<<"m", "p", ";">>, <<"U+2213">> >>,
     <<<<"m", "s", "t", "p", "o", "s", ";">>, <<"U+223E">> >>,
     <<<<"o", "a", "s", "t", ";">>, <<"U+229B">> >>,
     <<<<"o", "g", "t", ";">>, <<"U+29C1">> >>,
     <<<<"o", "l", "t", ";">>, <<"U+29C0">> >>,
     <<<<"o", "s", "o", "l", ";">>, <<"U+2298">> >>,
     <<<<"p", "m", ";">>, <<"U+00B1">> >>,
     <<<<"s", "m", "t", ";">>, <<"U+2AAA">> >>,
     <<<<"s", "o", "l", ";">>, <<"/">> >>,
     <<<<"t", "o", "p", ";">>, <<"U+22A4">> >>,
     <<<<"t", "o", "s", "a", ";">>, <<"U+2929">> >>}

html5 ==
    [name \in {kv[1] : kv \in html5_items} |->
        (CHOOSE kv \in html5_items : kv[1] = name)[2]]

MarkChars ==
    {"U+0300", "U+0301", "U+0302", "U+0303", "U+0304", "U+0306", "U+0307",
     "U+0308", "U+030A", "U+030C", "U+0338", "U+1AB2", "U+20D0", "U+20D1",
     "U+20DC"}

nfc_singleton ==
       "U+2126" :> "U+03A9"
    @@ "U+212B" :> "U+00C5"

nfc_compose_items ==
    {<<<<"<", "U+0338">>, "U+226E">>,
     <<<<"=", "U+0338">>, "U+2260">>,
     <<<<">", "U+0338">>, "U+226F">>,
     <<<<"A", "U+0300">>, "U+00C0">>,
     <<<<"A", "U+0301">>, "U+00C1">>,
     <<<<"A", "U+0302">>, "U+00C2">>,
     <<<<"A", "U+0303">>, "U+00C3">>,
     <<<<"A", "U+0304">>, "U+0100">>,
     <<<<"A", "U+0306">>, "U+0102">>,
     <<<<"A", "U+0307">>, "U+0226">>,
     <<<<"A", "U+0308">>, "U+00C4">>,
     <<<<"A", "U+030A">>, "U+00C5">>,
     <<<<"A", "U+030C">>, "U+01CD">>,
     <<<<"B", "U+0307">>, "U+1E02">>,
     <<<<"C", "U+0301">>, "U+0106">>,
     <<<<"C", "U+0302">>, "U+0108">>,
     <<<<"C", "U+0307">>, "U+010A">>,
     <<<<"C", "U+030C">>, "U+010C">>,
     <<<<"D", "U+0307">>, "U+1E0A">>,
     <<<<"D", "U+030C">>, "U+010E">>,
     <<<<"E", "U+0300">>, "U+00C8">>,
     <<<<"E", "U+0301">>, "U+00C9">>,
     <<<<"E", "U+0302">>, "U+00CA">>,
     <<<<"E", "U+0303">>, "U+1EBC">>,
     <<<<"E", "U+0304">>, "U+0112">>,
     <<<<"E", "U+0306">>, "U+0114">>,
     <<<<"E", "U+0307">>, "U+0116">>,
     <<<<"E", "U+0308">>, "U+00CB">>,
     <<<<"E", "U+030C">>, "U+011A">>,
     <<<<"F", "U+0307">>, "U+1E1E">>,
     <<<<"G", "U+0301">>, "U+01F4">>,
     <<<<"G", "U+0302">>, "U+011C">>,
     <<<<"G", "U+0304">>, "U+1E20">>,
     <<<<"G", "U+0306">>, "U+011E">>,
     <<<<"G", "U+0307">>, "U+0120">>,
     <<<<"G", "U+030C">>, "U+01E6">>,
     <<<<"H", "U+0302">>, "U+0124">>,
     <<<<"H", "U+0307">>, "U+1E22">>,
     <<<<"H", "U+0308">>, "U+1E26">>,
     <<<<"H", "U+030C">>, "U+021E">>,
     <<<<"I", "U+0300">>, "U+00CC">>,
     <<<<"I", "U+0301">>, "U+00CD">>,
     <<<<"I", "U+0302">>, "U+00CE">>,
     <<<<"I", "U+0303">>, "U+0128">>,
     <<<<"I", "U+0304">>, "U+012A">>,
     <<<<"I", "U+0306">>, "U+012C">>,
     <<<<"I", "U+0307">>, "U+0130">>,
     <<<<"I", "U+0308">>, "U+00CF">>,
     <<<<"I", "U+030C">>, "U+01CF">>,
     <<<<"J", "U+0302">>, "U+0134">>,
     <<<<"K", "U+0301">>, "U+1E30">>,
     <<<<"K", "U+030C">>, "U+01E8">>,
     <<<<"L", "U+0301">>, "U+0139">>,
     <<<<"L", "U+030C">>, "U+013D">>,
     <<<<"M", "U+0301">>, "U+1E3E">>,
     <<<<"M", "U+0307">>, "U+1E40">>,
     <<<<"N", "U+0300">>, "U+01F8">>,
     <<<<"N", "U+0301">>, "U+0143">>,
     <<<<"N", "U+0303">>, "U+00D1">>,
     <<<<"N", "U+0307">>, "U+1E44">>,
     <<<<"N", "U+030C">>, "U+0147">>,
     <<<<"O", "U+0300">>, "U+00D2">>,
     <<<<"O", "U+0301">>, "U+00D3">>,
     <<<<"O", "U+0302">>, "U+00D4">>,
     <<<<"O", "U+0303">>, "U+00D5">>,
     <<<<"O", "U+0304">>, "U+014C">>,
     <<<<"O", "U+0306">>, "U+014E">>,
     <<<<"O", "U+0307">>, "U+022E">>,
     <<<<"O", "U+0308">>, "U+00D6">>,
     <<<<"O", "U+030C">>, "U+01D1">>,
     <<<<"P", "U+0301">>, "U+1E54">>,
     <<<<"P", "U+0307">>, "U+1E56">>,
     <<<<"R", "U+0301">>, "U+0154">>,
     <<<<"R", "U+0307">>, "U+1E58">>,
     <<<<"R", "U+030C">>, "U+0158">>,
     <<<<"S", "U+0301">>, "U+015A">>,
     <<<<"S", "U+0302">>, "U+015C">>,
     <<<<"S", "U+0307">>, "U+1E60">>,
     <<<<"S", "U+030C">>, "U+0160">>,
     <<<<"T", "U+0307">>, "U+1E6A">>,
     <<<<"T", "U+030C">>, "U+0164">>,
     <<<<"U", "U+0300">>, "U+00D9">>,
     <<<<"U", "U+0301">>, "U+00DA">>,
     <<<<"U", "U+0302">>, "U+00DB">>,
     <<<<"U", "U+0303">>, "U+0168">>,
     <<<<"U", "U+0304">>, "U+016A">>,
     <<<<"U", "U+0306">>, "U+016C">>,
     <<<<"U", "U+0308">>, "U+00DC">>,
     <<<<"U", "U+030A">>, "U+016E">>,
     <<<<"U", "U+030C">>, "U+01D3">>,
     <<<<"V", "U+0303">>, "U+1E7C">>,
     <<<<"W", "U+0300">>, "U+1E80">>,
     <<<<"W", "U+0301">>, "U+1E82">>,
     <<<<"W", "U+0302">>, "U+0174">>,
     <<<<"W", "U+0307">>, "U+1E86">>,
     <<<<"W", "U+0308">>, "U+1E84">>,
     <<<<"X", "U+0307">>, "U+1E8A">>,
     <<<<"X", "U+0308">>, "U+1E8C">>,
     <<<<"Y", "U+0300">>, "U+1EF2">>,
     <<<<"Y", "U+0301">>, "U+00DD">>,
     <<<<"Y", "U+0302">>, "U+0176">>,
     <<<<"Y", "U+0303">>, "U+1EF8">>,
     <<<<"Y", "U+0304">>, "U+0232">>,
     <<<<"Y", "U+0307">>, "U+1E8E">>,
     <<<<"Y", "U+0308">>, "U+0178">>,
     <<<<"Z", "U+0301">>, "U+0179">>,
     <<<<"Z", "U+0302">>, "U+1E90">>,
     <<<<"Z", "U+0307">>, "U+017B">>,
     <<<<"Z", "U+030C">>, "U+017D">>,
     <<<<"a", "U+0300">>, "U+00E0">>,
     <<<<"a", "U+0301">>, "U+00E1">>,
     <<<<"a", "U+0302">>, "U+00E2">>,
     <<<<"a", "U+0303">>, "U+00E3">>,
     <<<<"a", "U+0304">>, "U+0101">>,
     <<<<"a", "U+0306">>, "U+0103">>,
     <<<<"a", "U+0307">>, "U+0227">>,
     <<<<"a", "U+0308">>, "U+00E4">>,
     <<<<"a", "U+030A">>, "U+00E5">>,
     <<<<"a", "U+030C">>, "U+01CE">>,
     <<<<"b", "U+0307">>, "U+1E03">>,
     <<<<"c", "U+0301">>, "U+0107">>,
     <<<<"c", "U+0302">>, "U+0109">>,
     <<<<"c", "U+0307">>, "U+010B">>,
     <<<<"c", "U+030C">>, "U+010D">>,
     <<<<"d", "U+0307">>, "U+1E0B">>,
     <<<<"d", "U+030C">>, "U+010F">>,
     <<<<"e", "U+0300">>, "U+00E8">>,
     <<<<"e", "U+0301">>, "U+00E9">>,
     <<<<"e", "U+0302">>, "U+00EA">>,
     <<<<"e", "U+0303">>, "U+1EBD">>,
     <<<<"e", "U+0304">>, "U+0113">>,
     <<<<"e", "U+0306">>, "U+0115">>,
     <<<<"e", "U+0307">>, "U+0117">>,
     <<<<"e", "U+0308">>, "U+00EB">>,
     <<<<"e", "U+030C">>, "U+011B">>,
     <<<<"f", "U+0307">>, "U+1E1F">>,
     <<<<"g", "U+0301">>, "U+01F5">>,
     <<<<"g", "U+0302">>, "U+011D">>,
     <<<<"g", "U+0304">>, "U+1E21">>,
     <<<<"g", "U+0306">>, "U+011F">>,
     <<<<"g", "U+0307">>, "U+0121">>,
     <<<<"g", "U+030C">>, "U+01E7">>,
     <<<<"h", "U+0302">>, "U+0125">>,
     <<<<"h", "U+0307">>, "U+1E23">>,
     <<<<"h", "U+0308">>, "U+1E27">>,
     <<<<"h", "U+030C">>, "U+021F">>,
     <<<<"i", "U+0300">>, "U+00EC">>,
     <<<<"i", "U+0301">>, "U+00ED">>,
     <<<<"i", "U+0302">>, "U+00EE">>,
     <<<<"i", "U+0303">>, "U+0129">>,
     <<<<"i", "U+0304">>, "U+012B">>,
     <<<<"i", "U+0306">>, "U+012D">>,
     <<<<"i", "U+0308">>, "U+00EF">>,
     <<<<"i", "U+030C">>, "U+01D0">>,
     <<<<"j", "U+0302">>, "U+0135">>,
     <<<<"j", "U+030C">>, "U+01F0">>,
     <<<<"k", "U+0301">>, "U+1E31">>,
     <<<<"k", "U+030C">>, "U+01E9">>,
     <<<<"l", "U+0301">>, "U+013A">>,
     <<<<"l", "U+030C">>, "U+013E">>,
     <<<<"m", "U+0301">>, "U+1E3F">>,
     <<<<"m", "U+0307">>, "U+1E41">>,
     <<<<"n", "U+0300">>, "U+01F9">>,
     <<<<"n", "U+0301">>, "U+0144">>,
     <<<<"n", "U+0303">>, "U+00F1">>,
     <<<<"n", "U+0307">>, "U+1E45">>,
     <<<<"n", "U+030C">>, "U+0148">>,
     <<<<"o", "U+0300">>, "U+00F2">>,
     <<<<"o", "U+0301">>, "U+00F3">>,
     <<<<"o", "U+0302">>, "U+00F4">>,
     <<<<"o", "U+0303">>, "U+00F5">>,
     <<<<"o", "U+0304">>, "U+014D">>,
     <<<<"o", "U+0306">>, "U+014F">>,
     <<<<"o", "U+0307">>, "U+022F">>,
     <<<<"o", "U+0308">>, "U+00F6">>,
     <<<<"o", "U+030C">>, "U+01D2">>,
     <<<<"p", "U+0301">>, "U+1E55">>,
     <<<<"p", "U+0307">>, "U+1E57">>,
     <<<<"r", "U+0301">>, "U+0155">>,
     <<<<"r", "U+0307">>, "U+1E59">>,
     <<<<"r", "U+030C">>, "U+0159">>,
     <<<<"s", "U+0301">>, "U+015B">>,
     <<<<"s", "U+0302">>, "U+015D">>,
     <<<<"s", "U+0307">>, "U+1E61">>,
     <<<<"s", "U+030C">>, "U+0161">>,
     <<<<"t", "U+0307">>, "U+1E6B">>,
     <<<<"t", "U+0308">>, "U+1E97">>,
     <<<<"t", "U+030C">>, "U+0165">>,
     <<<<"u", "U+0300">>, "U+00F9">>,
     <<<<"u", "U+0301">>, "U+00FA">>,
     <<<<"u", "U+0302">>, "U+00FB">>,
     <<<<"u", "U+0303">>, "U+0169">>,
     <<<<"u", "U+0304">>, "U+016B">>,
     <<<<"u", "U+0306">>, "U+016D">>,
     <<<<"u", "U+0308">>, "U+00FC">>,
     <<<<"u", "U+030A">>, "U+016F">>,
     <<<<"u", "U+030C">>, "U+01D4">>,
     <<<<"v", "U+0303">>, "U+1E7D">>,
     <<<<"w", "U+0300">>, "U+1E81">>,
     <<<<"w", "U+0301">>, "U+1E83">>,
     <<<<"w", "U+0302">>, "U+0175">>,
     <<<<"w", "U+0307">>, "U+1E87">>,
     <<<<"w", "U+0308">>, "U+1E85">>,
     <<<<"w", "U+030A">>, "U+1E98">>,
     <<<<"x", "U+0307">>, "U+1E8B">>,
     <<<<"x", "U+0308">>, "U+1E8D">>,
     <<<<"y", "U+0300">>, "U+1EF3">>,
     <<<<"y", "U+0301">>, "U+00FD">>,
     <<<<"y", "U+0302">>, "U+0177">>,
     <<<<"y", "U+0303">>, "U+1EF9">>,
     <<<<"y", "U+0304">>, "U+0233">>,
     <<<<"y", "U+0307">>, "U+1E8F">>,
     <<<<"y", "U+0308">>, "U+00FF">>,
     <<<<"y", "U+030A">>, "U+1E99">>,
     <<<<"z", "U+0301">>, "U+017A">>,
     <<<<"z", "U+0302">>, "U+1E91">>,
     <<<<"z", "U+0307">>, "U+017C">>,
     <<<<"z", "U+030C">>, "U+017E">>,
     <<<<"U+00C5", "U+0301">>, "U+01FA">>,
     <<<<"U+03A9", "U+0300">>, "U+1FFA">>,
     <<<<"U+03A9", "U+0301">>, "U+038F">>,
     <<<<"U+03B5", "U+0300">>, "U+1F72">>,
     <<<<"U+03B5", "U+0301">>, "U+03AD">>,
     <<<<"U+03B9", "U+0300">>, "U+1F76">>,
     <<<<"U+03B9", "U+0301">>, "U+03AF">>,
     <<<<"U+03B9", "U+0304">>, "U+1FD1">>,
     <<<<"U+03B9", "U+0306">>, "U+1FD0">>,
     <<<<"U+03B9", "U+0308">>, "U+03CA">>,
     <<<<"U+2190", "U+0338">>, "U+219A">>,
     <<<<"U+2192", "U+0338">>, "U+219B">>,
     <<<<"U+2194", "U+0338">>, "U+21AE">>,
     <<<<"U+21D0", "U+0338">>, "U+21CD">>,
     <<<<"U+21D2", "U+0338">>, "U+21CF">>,
     <<<<"U+21D4", "U+0338">>, "U+21CE">>,
     <<<<"U+2203", "U+0338">>, "U+2204">>,
     <<<<"U+2208", "U+0338">>, "U+2209">>,
     <<<<"U+220B", "U+0338">>, "U+220C">>,
     <<<<"U+2223", "U+0338">>, "U+2224">>,
     <<<<"U+2225", "U+0338">>, "U+2226">>,
     <<<<"U+223C", "U+0338">>, "U+2241">>,
     <<<<"U+2248", "U+0338">>, "U+2249">>,
     <<<<"U+2264", "U+0338">>, "U+2270">>,
     <<<<"U+2265", "U+0338">>, "U+2271">>,
     <<<<"U+2276", "U+0338">>, "U+2278">>,
     <<<<"U+2277", "U+0338">>, "U+2279">>,
     <<<<"U+227A", "U+0338">>, "U+2280">>,
     <<<<"U+227B", "U+0338">>, "U+2281">>,
     <<<<"U+2282", "U+0338">>, "U+2284">>,
     <<<<"U+2283", "U+0338">>, "U+2285">>,
     <<<<"U+2286", "U+0338">>, "U+2288">>,
     <<<<"U+2287", "U+0338">>, "U+2289">>}

nfc_compose ==
    [pair \in {kv[1] : kv \in nfc_compose_items} |->
        (CHOOSE kv \in nfc_compose_items : kv[1] = pair)[2]]


(***************************************************************************)
(* Python str helpers.                                                     *)
(***************************************************************************)
\* s[i:] of Python, i counted from 0.
From(s, i) == SubSeq(s, i + 1, Len(s))

\* s.startswith(p)
startswith(s, p) == Len(s) >= Len(p) /\ SubSeq(s, 1, Len(p)) = p

\* s.isspace(), s.isalnum(): every character is in the class, and s is not empty.
isspace(s) == s # <<>> /\ \A k \in 1..Len(s) : s[k] \in SpaceChars

isalnum(s) == s # <<>> /\ \A k \in 1..Len(s) : s[k] \in AlnumChars

\* s.lstrip(), s.rstrip(), s.strip()
lstrip(s) ==
    LET n == CHOOSE n \in 0..Len(s) :
                 /\ \A j \in 1..n : s[j] \in SpaceChars
                 /\ n = Len(s) \/ s[n + 1] \notin SpaceChars
    IN  SubSeq(s, n + 1, Len(s))

rstrip(s) ==
    LET n == CHOOSE n \in 0..Len(s) :
                 /\ \A j \in (n + 1)..Len(s) : s[j] \in SpaceChars
                 /\ n = 0 \/ s[n] \notin SpaceChars
    IN  SubSeq(s, 1, n)

strip(s) == rstrip(lstrip(s))

\* "".join(ss): the strings ss[lo..hi] one after the other
RECURSIVE JoinIn(_, _, _)
JoinIn(ss, lo, hi) ==
    IF lo > hi
    THEN <<>>
    ELSE IF lo = hi
    THEN ss[lo]
    ELSE JoinIn(ss, lo, (lo + hi) \div 2) \o JoinIn(ss, (lo + hi) \div 2 + 1, hi)

join(ss) == JoinIn(ss, 1, Len(ss))

\* every character of s is in S
AllIn(s, S) == \A k \in 1..Len(s) : s[k] \in S

\* sub occurs in s as a substring
Contains(s, sub) ==
    \E k \in 0..(Len(s) - Len(sub)) : SubSeq(s, k + 1, k + Len(sub)) = sub

(***************************************************************************)
(* Regular expressions.  A pattern is a tree of the nodes below; Run is a  *)
(* backtracking matcher that gives the match Python's re gives: of the     *)
(* alternatives the leftmost that lets the rest of the pattern match, of a *)
(* greedy repeat the longest and of a lazy repeat the shortest that does.  *)
(* Every repeat of clean.py (star, plus, lazy or not) is a repeat of one    *)
(* character class.                                                        *)
(***************************************************************************)
Set(S) == [t |-> "set", s |-> S, neg |-> FALSE]

NotSet(S) == [t |-> "set", s |-> S, neg |-> TRUE]

Chr(c) == Set({c})

\* The patterns a pattern stands for when it is part of a sequence.
Seqof(r) == IF r.t = "cat" THEN r.rs ELSE <<r>>

\* r1 r2 ...: one after the other (a sequence in a sequence is spliced in)
Cat(rs) == [t |-> "cat", rs |-> join([k \in 1..Len(rs) |-> Seqof(rs[k])])]

Alt(rs) == [t |-> "alt", rs |-> rs]

\* r{min,max} for a character class r (max = -1: no upper limit), and
\* r*, r+, r*?, r+?
Rep(r, min, max) == [t |-> "rep", r |-> r, min |-> min, max |-> max, lazy |-> FALSE]

Star(r) == Rep(r, 0, -1)

Plus(r) == Rep(r, 1, -1)

StarLazy(r) == [Rep(r, 0, -1) EXCEPT !.lazy = TRUE]

PlusLazy(r) == [Rep(r, 1, -1) EXCEPT !.lazy = TRUE]

Opt(r) == Alt(<<r, Cat(<<>>)>>)

Grp(n, r) == Cat(<<[t |-> "open", n |-> n], r, [t |-> "close", n |-> n]>>)

\* \b
WordB == [t |-> "wordb"]

\* $
Eos == [t |-> "eos"]

\* a literal string, and one under re.IGNORECASE
Str(cs) == [t |-> "lit", cs |-> cs, i |-> FALSE]

StrI(cs) == [t |-> "lit", cs |-> cs, i |-> TRUE]

\* . without and with re.DOTALL
Dot == NotSet({"\n"})

DotAll == NotSet({})

\* \s \w \d
WS == Set(SpaceChars)

Word == Set(WordChars)

Dec == Set(DecimalChars)

\* The largest group number of a pattern of clean.py.
MaxGroup == 6

NoGroups ==
    [p |-> [n \in 1..MaxGroup |-> 0],
     b |-> [n \in 1..MaxGroup |-> 0],
     e |-> [n \in 1..MaxGroup |-> 0]]

NoMatch == [ok |-> FALSE, b |-> 0, e |-> 0, g |-> NoGroups]

IsWordAt(s, i) == i >= 1 /\ i <= Len(s) /\ s[i] \in WordChars

InSet(r, c) == (c \in r.s) # r.neg

\* The number of characters of the class r that s holds from position i on.
RunLength(r, s, i) ==
    CHOOSE n \in 0..(Len(s) + 1 - i) :
        /\ \A j \in 0..(n - 1) : InSet(r, s[i + j])
        /\ i + n > Len(s) \/ ~InSet(r, s[i + n])

\* s holds the literal cs at position i
LitAt(r, s, i) ==
    /\ i + Len(r.cs) - 1 <= Len(s)
    /\ \A j \in 1..Len(r.cs) :
          IF r.i
          THEN ToLower(s[i + j - 1]) = ToLower(r.cs[j])
          ELSE s[i + j - 1] = r.cs[j]

RECURSIVE Run(_, _, _, _)

\* A repeat followed by the patterns k: the repeat takes n characters, then
\* n + step, ..., last, until the rest matches.
RECURSIVE TryRep(_, _, _, _, _, _, _)
TryRep(k, s, i, g, n, step, last) ==
    LET a == Run(k, s, i + n, g)
    IN  IF a.ok \/ n = last THEN a ELSE TryRep(k, s, i, g, n + step, step, last)

\* Run(k, s, i, g): match the patterns of the sequence k one after the other
\* from position i of s (1-based); g holds the groups captured so far.
Run(k, s, i, g) ==
    IF Len(k) = 0
    THEN [ok |-> TRUE, b |-> 0, e |-> i, g |-> g]
    ELSE LET r == Head(k)
             rest == Tail(k)
         IN  CASE r.t = "set" ->
                    IF i <= Len(s) /\ InSet(r, s[i])
                    THEN Run(rest, s, i + 1, g)
                    ELSE NoMatch
               [] r.t = "lit" ->
                    IF LitAt(r, s, i) THEN Run(rest, s, i + Len(r.cs), g) ELSE NoMatch
               [] r.t = "cat" -> Run(r.rs \o rest, s, i, g)
               [] r.t = "alt" ->
                    IF Len(r.rs) = 0
                    THEN NoMatch
                    ELSE LET a == Run(Seqof(Head(r.rs)) \o rest, s, i, g)
                         IN  IF a.ok
                             THEN a
                             ELSE Run(<<Alt(Tail(r.rs))>> \o rest, s, i, g)
               [] r.t = "rep" ->
                    LET n == RunLength(r.r, s, i)
                        most == IF r.max >= 0 /\ n > r.max THEN r.max ELSE n
                    IN  IF most < r.min
                        THEN NoMatch
                        ELSE IF r.lazy
                        THEN TryRep(rest, s, i, g, r.min, 1, most)
                        ELSE TryRep(rest, s, i, g, most, -1, r.min)
               [] r.t = "open" -> Run(rest, s, i, [g EXCEPT !.p[r.n] = i])
               [] r.t = "close" ->
                    Run(rest, s, i, [g EXCEPT !.b[r.n] = g.p[r.n], !.e[r.n] = i])
               [] r.t = "wordb" ->
                    IF IsWordAt(s, i - 1) # IsWordAt(s, i)
                    THEN Run(rest, s, i, g)
                    ELSE NoMatch
               [] r.t = "eos" ->
                    IF i = Len(s) + 1 \/ (i = Len(s) /\ s[i] = "\n")
                    THEN Run(rest, s, i, g)
                    ELSE NoMatch

\* re.match(re, s) tried at position i
MatchAt(re, s, i) == [Run(Seqof(re), s, i, NoGroups) EXCEPT !.b = i]

\* re.match(re, s)
Match(re, s) == MatchAt(re, s, 1)

\* The match that starts leftmost among the positions lo..hi.
RECURSIVE SearchIn(_, _, _, _)
SearchIn(re, s, lo, hi) ==
    IF lo > hi
    THEN NoMatch
    ELSE IF lo = hi
    THEN MatchAt(re, s, lo)
    ELSE LET m == SearchIn(re, s, lo, (lo + hi) \div 2)
         IN  IF m.ok THEN m ELSE SearchIn(re, s, (lo + hi) \div 2 + 1, hi)

\* re.search from position i on
Search(re, s, i) == SearchIn(re, s, i, Len(s) + 1)

\* re.finditer(re, s): the matches, left to right, none overlapping; m is
\* the first of them.
RECURSIVE FindAll(_, _, _)

FindFrom(re, s, m) ==
    IF ~m.ok
    THEN <<>>
    ELSE <<m>> \o FindAll(re, s, IF m.e > m.b THEN m.e ELSE m.e + 1)

FindAll(re, s, i) == FindFrom(re, s, Search(re, s, i))

\* m.group(0), m.group(n) ("" where Python gives None), and whether group n
\* took part in the match.
Group0(s, m) == SubSeq(s, m.b, m.e - 1)

HasGroup(m, n) == m.g.b[n] > 0

Group(s, m, n) == IF HasGroup(m, n) THEN SubSeq(s, m.g.b[n], m.g.e[n] - 1) ELSE <<>>

\* re.sub(re, repl, s), given the matches ms of re in s and, for each, the
\* string reps[k] that repl returns for it.
Splice(s, ms, reps) ==
    LET after(k) == IF k = 0 THEN 1 ELSE ms[k].e
    IN  join([k \in 1..Len(ms) |-> SubSeq(s, after(k - 1), ms[k].b - 1) \o reps[k]])
            \o SubSeq(s, after(Len(ms)), Len(s))

\* re.sub(re, c, s) for a constant replacement c, ms the matches of re in s
SpliceConst(s, ms, c) == Splice(s, ms, [k \in 1..Len(ms) |-> c])

SubConst(re, c, s) == SpliceConst(s, FindAll(re, s, 1), c)

(***************************************************************************)
(* Script converters.                                                      *)
(***************************************************************************)
\* to_superscript deciding glyph or caret character by character
to_superscript_each(text) ==
    join([k \in 1..Len(text) |->
            IF text[k] \in DOMAIN superscript_ht
            THEN superscript_ht[text[k]]
            ELSE <<"^", text[k]>>])

to_superscript(text) ==
    IF text = <<>>
    THEN <<>>
    ELSE IF \A k \in 1..Len(text) : text[k] \in DOMAIN superscript_ht
    THEN join([k \in 1..Len(text) |-> superscript_ht[text[k]]])
    ELSE IF Len(text) = 1
    THEN <<"^">> \o text
    ELSE <<"^", "(">> \o text \o <<")">>

to_subscript(text) ==
    IF text = <<>>
    THEN <<>>
    ELSE IF \A k \in 1..Len(text) : text[k] \in DOMAIN subscript_ht
    THEN join([k \in 1..Len(text) |-> subscript_ht[text[k]]])
    ELSE IF Len(text) = 1
    THEN <<"_">> \o text
    ELSE <<"_", "(">> \o text \o <<")">>

to_chem(text) ==
    join([k \in 1..Len(text) |->
            IF text[k] \in DigitChars THEN to_subscript(<<text[k]>>) ELSE <<text[k]>>])

mathcal_fn(text) ==
    join([k \in 1..Len(text) |->
            IF text[k] \in DOMAIN mathcal_map THEN mathcal_map[text[k]] ELSE <<text[k]>>])

mathfrak_fn(text) ==
    join([k \in 1..Len(text) |->
            IF text[k] \in DOMAIN mathfrak_map THEN mathfrak_map[text[k]] ELSE <<text[k]>>])

mathbb_fn(text) ==
    join([k \in 1..Len(text) |->
            IF <<text[k]>> \in DOMAIN mathbb_map THEN mathbb_map[<<text[k]>>] ELSE <<text[k]>>])

(***************************************************************************)
(* The math expander, to_math.  Its local functions take the placeholder   *)
(* vector magic_vec (and expand_group the list parts of the recurse call   *)
(* it runs in) as arguments and give back what they change.  A value is a  *)
(* record: v the string, exc the exception raised ("" for none), log the   *)
(* lines printed.                                                          *)
(***************************************************************************)
\* The reserved range [MAGIC_FIRST, MAGIC_LAST] of wikitextprocessor.common,
\* of which the model names the first characters: chr(MAGIC_FIRST + k) is
\* MagicChars[k + 1].
MagicSet == {MagicChars[k] : k \in 1..Len(MagicChars)}

\* ord(c) - MAGIC_FIRST
MagicIndex(c) == (CHOOSE k \in 1..Len(MagicChars) : MagicChars[k] = c) - 1

bs == "\\"

Letters == Lower \cup Upper

Val(v) == [v |-> v, exc |-> "", log |-> <<>>]

Raise(e, log) == [v |-> <<>>, exc |-> e, log |-> log]

Line(msg, v) == [msg |-> msg, v |-> v]

\* One pass of the re.sub of expand: every placeholder replaced by its entry.
expand_pass(text, magic_vec) ==
    join([k \in 1..Len(text) |->
            IF text[k] \in MagicSet
            THEN magic_vec[MagicIndex(text[k]) + 1]
            ELSE <<text[k]>>])

\* magic_vec[ord(m.group(0)) - MAGIC_FIRST] raises IndexError past the end.
expand_in_range(text, magic_vec) ==
    \A k \in 1..Len(text) :
        text[k] \in MagicSet => MagicIndex(text[k]) < Len(magic_vec)

RECURSIVE expand(_, _)
expand(text, magic_vec) ==
    IF ~expand_in_range(text, magic_vec)
    THEN Raise("IndexError", <<>>)
    ELSE LET t == expand_pass(text, magic_vec)
         IN  IF t = text THEN Val(strip(text)) ELSE expand(t, magic_vec)

\* (\\[a-zA-Z]+|\\.|.) with group number n
re_arg(n) ==
    Grp(n, Alt(<<Cat(<<Chr(bs), Plus(Set(Letters))>>), Cat(<<Chr(bs), Dot>>), Dot>>))

re_mathcal == Cat(<<Str(<<bs, "m", "a", "t", "h", "c", "a", "l">>), WordB>>)

re_mathfrak == Cat(<<Str(<<bs, "m", "a", "t", "h", "f", "r", "a", "k">>), WordB>>)

re_mathbb == Cat(<<Str(<<bs, "m", "a", "t", "h", "b", "b">>), WordB>>)

re_begin_end ==
    Cat(<<Chr(bs), Alt(<<Str(<<"b", "e", "g", "i", "n">>), Str(<<"e", "n", "d">>)>>), WordB>>)

re_text == Cat(<<Str(<<bs, "t", "e", "x", "t">>), WordB>>)

re_sqrt_index == Str(<<bs, "s", "q", "r", "t", "[">>)

re_sqrt ==
    Cat(<<Str(<<bs, "s", "q", "r", "t">>), Alt(<<Eos, Set(AsciiDigits), WordB>>)>>)

re_frac ==
    Cat(<<Str(<<bs, "f", "r", "a", "c">>), Alt(<<Eos, Set(AsciiDigits), WordB>>)>>)

re_frac_args ==
    Cat(<<Str(<<bs, "f", "r", "a", "c">>), Star(WS), re_arg(1), Star(WS), re_arg(2), Eos>>)

\* The pattern of the re.finditer of recurse.
re_token ==
    Alt(<<Plus(WS),
          Cat(<<Str(<<bs, "f", "r", "a", "c">>), Star(WS), re_arg(1), Star(WS), re_arg(2)>>),
          Cat(<<Opt(Grp(3, Alt(<<
                    Cat(<<Chr(bs),
                          Grp(4, Alt(<<Str(<<"m", "a", "t", "h", "c", "a", "l">>),
                                       Str(<<"m", "a", "t", "h", "f", "r", "a", "k">>),
                                       Str(<<"m", "a", "t", "h", "b", "b">>),
                                       Str(<<"t", "e", "x", "t">>),
                                       Str(<<"b", "e", "g", "i", "n">>),
                                       Str(<<"e", "n", "d">>)>>)),
                          WordB, Star(WS)>>),
                    Cat(<<Str(<<bs, "s", "q", "r", "t">>), WordB,
                          Opt(Grp(5, Cat(<<Chr("["), Plus(Dec), Chr("]")>>)))>>)>>))),
                Opt(Set({"_", "^"})),
                Grp(6, Alt(<<Cat(<<Chr(bs), Plus(Set(Letters)), Star(WS)>>),
                             Cat(<<Chr(bs), Dot>>),
                             Plus(Word),
                             Dot>>))>>)>>)

\* fn(v) for the fn that expand_group chose
apply_fn(fn, v) ==
    CASE fn = "mathcal_fn" -> mathcal_fn(v)
      [] fn = "mathfrak_fn" -> mathfrak_fn(v)
      [] fn = "mathbb_fn" -> mathbb_fn(v)
      [] fn = "to_subscript" -> to_subscript(v)
      [] fn = "to_superscript" -> to_superscript(v)

\* The condition under which expand_group puts a space before v.
needs_space(parts, v) ==
    /\ \/ /\ parts # <<>>
          /\ parts[Len(parts)][Len(parts[Len(parts)])] \in AlphaChars
          /\ v # <<>>
          /\ v[1] \in AlphaChars
       \/ /\ parts # <<>>
          /\ parts[Len(parts)][Len(parts[Len(parts)])] \in DigitChars
          /\ v # <<>>
          /\ v[1] \in DigitChars
    /\ Len(parts[Len(parts)]) > 1
    /\ Len(v) > 1

\* What the if/elif chain of expand_group leaves: fn ("" for None), v, whether
\* v is a str, whether the function returns v at once, the exception raised
\* and the lines printed.
Chain(fn, v) == [fn |-> fn, v |-> v, str |-> TRUE, ret |-> FALSE, exc |-> "", log |-> <<>>]

\* The value of a command \name: math_map.get(name), and the name itself,
\* between spaces when it is alphanumeric, when the map does not have it.
command(name) ==
    IF name \notin DOMAIN math_map
    THEN IF isalnum(name) THEN <<" ">> \o name \o <<" ">> ELSE name
    ELSE math_map[name]

\* if v.startswith("\\"): ... elif v.isspace() or v in ("&",): v = ""
lookup(v) ==
    IF startswith(v, <<bs>>)
    THEN command(strip(From(v, 1)))
    ELSE IF isspace(v) \/ v = <<"&">> THEN <<>> ELSE v

\* fn(e) for the expanded value e
fn_of(fn, e) == IF e.exc # "" THEN e ELSE Val(apply_fn(fn, e.v))

\* if fn is not None: v = expand(v); v = fn(v)
with_fn(fn, v, magic_vec) == IF fn = "" THEN Val(v) ELSE fn_of(fn, expand(v, magic_vec))

\* The space put before v, and v = expand(v)
spaced(parts, v) == IF needs_space(parts, v) THEN <<" ">> \o v ELSE v

spaced_expand(parts, magic_vec, e) ==
    IF e.exc # "" THEN e ELSE expand(spaced(parts, e.v), magic_vec)

\* The rest of expand_group, from "if v.startswith(...)" on: a tuple has no
\* startswith.
expand_group_tail(c, parts, magic_vec) ==
    IF c.exc # ""
    THEN Raise(c.exc, c.log)
    ELSE IF c.ret
    THEN [v |-> c.v, exc |-> "", log |-> c.log]
    ELSE IF ~c.str
    THEN Raise("AttributeError", c.log)
    ELSE [spaced_expand(parts, magic_vec, with_fn(c.fn, lookup(c.v), magic_vec))
             EXCEPT !.log = c.log]

\* sqrt_index with the closing bracket left off as well: v[6:-2].strip()
sqrt_index_short(v) == strip(SubSeq(v, 7, Len(v) - 2))

\* a = v[6:-1].strip() of the \sqrt[ branch
sqrt_index(v) == strip(SubSeq(v, 7, Len(v) - 1))

\* The \sqrt[ branch for the index a: v = "U+221B", with its trailing comma,
\* is a tuple.
sqrt_chain(a) ==
    IF a = <<"2">>
    THEN Chain("", <<"U+221A">>)
    ELSE IF a = <<"3">>
    THEN [Chain("", <<"U+221B">>) EXCEPT !.str = FALSE]
    ELSE IF a = <<"4">>
    THEN Chain("", <<"U+221C">>)
    ELSE Chain("", to_superscript(a) \o <<"U+221A">>)

\* frac_error returning the empty string in place of v
frac_error_empty(v) ==
    [v |-> <<>>, exc |-> "", log |-> <<Line("frac", v), Line("MATH FRAC ERROR", <<>>)>>]

\* The \frac branch when the argument pattern does not match: the two lines
\* are printed and v is returned as it is.
frac_error(v) ==
    [v |-> v, exc |-> "", log |-> <<Line("frac", v), Line("MATH FRAC ERROR", <<>>)>>]

\* "(" + a + ")" if len(a) > 1
paren(a) == IF Len(a) > 1 THEN <<"(">> \o a \o <<")">> ELSE a

\* v = a + "/" + b for the resolved arguments a and b of \frac
frac_join(v, a, b) ==
    IF a.exc # ""
    THEN [Chain("", <<>>) EXCEPT !.exc = a.exc, !.log = <<Line("frac", v)>> \o a.log]
    ELSE IF b.exc # ""
    THEN [Chain("", <<>>) EXCEPT !.exc = b.exc,
                                 !.log = <<Line("frac", v)>> \o a.log \o b.log]
    ELSE [Chain("", paren(a.v) \o <<"/">> \o paren(b.v))
             EXCEPT !.log = <<Line("frac", v)>> \o a.log \o b.log]

RECURSIVE expand_group(_, _, _)

\* The \frac branch, m the match of the argument pattern.
frac_chain(v, m, parts, magic_vec) ==
    IF ~m.ok
    THEN [Chain("", frac_error(v).v) EXCEPT !.ret = TRUE, !.log = frac_error(v).log]
    ELSE frac_join(v, expand_group(strip(Group(v, m, 1)), parts, magic_vec),
                      expand_group(strip(Group(v, m, 2)), parts, magic_vec))

\* The if/elif chain of expand_group.
chain(v, parts, magic_vec) ==
    IF Match(re_mathcal, v).ok
    THEN Chain("mathcal_fn", strip(From(v, 8)))
    ELSE IF Match(re_mathfrak, v).ok
    THEN Chain("mathfrak_fn", strip(From(v, 9)))
    ELSE IF Match(re_mathbb, v).ok
    THEN Chain("mathbb_fn", From(v, 7))
    ELSE IF Match(re_begin_end, v).ok
    THEN Chain("", <<>>)
    ELSE IF Match(re_text, v).ok
    THEN Chain("", From(v, 5))
    ELSE IF Match(re_sqrt_index, v).ok
    THEN sqrt_chain(sqrt_index(v))
    ELSE IF Match(re_sqrt, v).ok
    THEN Chain("", <<"U+221A">>)
    ELSE IF Match(re_frac, v).ok
    THEN frac_chain(v, Match(re_frac_args, v), parts, magic_vec)
    ELSE IF startswith(v, <<"_">>)
    THEN Chain("to_subscript", From(v, 1))
    ELSE IF startswith(v, <<"^">>)
    THEN Chain("to_superscript", From(v, 1))
    ELSE Chain("", v)

expand_group(v, parts, magic_vec) ==
    expand_group_tail(chain(v, parts, magic_vec), parts, magic_vec)

\* parts.append(v) if v, for the value r of expand_group
add_part(st, r) ==
    [parts |-> IF r.exc = "" /\ r.v # <<>> THEN Append(st.parts, r.v) ELSE st.parts,
     exc |-> r.exc,
     log |-> st.log \o r.log]

\* The for loop of recurse over the tokens ms[k..] of text: st holds parts,
\* the exception raised and the lines printed.
RECURSIVE tokens_loop(_, _, _, _, _)
tokens_loop(text, ms, k, magic_vec, st) ==
    IF k > Len(ms) \/ st.exc # ""
    THEN st
    ELSE tokens_loop(text, ms, k + 1, magic_vec,
             add_part(st, expand_group(Group0(text, ms[k]), st.parts, magic_vec)))

\* re.escape(left) ([^ left right]+) re.escape(right)
re_magic(left, right) == Cat(<<Chr(left), Grp(1, Plus(NotSet({left, right}))), Chr(right)>>)

RECURSIVE recurse(_, _)
RECURSIVE math_magic(_, _, _, _)
RECURSIVE magic_subs(_, _, _, _)

\* repl(m) with magic chosen after magic_vec.append(t)
repl_after(st, t) ==
    [magic_vec |-> IF t.exc = "" THEN Append(t.magic_vec, t.v) ELSE t.magic_vec,
     reps |-> Append(st.reps, <<MagicChars[Len(t.magic_vec) + 2]>>),
     exc |-> t.exc,
     log |-> st.log \o t.log]

\* repl(m) of math_magic: magic is chosen before fn is called, t is what fn
\* (recurse at its one call) returned; st holds magic_vec, the replacements
\* so far, the exception raised and the lines printed.
repl(st, t) ==
    [magic_vec |-> IF t.exc = "" THEN Append(t.magic_vec, t.v) ELSE t.magic_vec,
     reps |-> Append(st.reps, <<MagicChars[Len(st.magic_vec) + 1]>>),
     exc |-> t.exc,
     log |-> st.log \o t.log]

\* The calls of repl for the matches ms[k..] of one re.sub of math_magic.
magic_subs(text, ms, k, st) ==
    IF k > Len(ms) \/ st.exc # ""
    THEN st
    ELSE magic_subs(text, ms, k + 1,
             repl(st, recurse(Group(text, ms[k], 1), st.magic_vec)))

\* The end of one round of the while loop of math_magic: t is the text after
\* the re.sub, r what the calls of repl left.
math_magic_round(text, left, right, r, t) ==
    IF r.exc # ""
    THEN [v |-> text, magic_vec |-> r.magic_vec, exc |-> r.exc, log |-> r.log]
    ELSE IF t = text
    THEN [v |-> text, magic_vec |-> r.magic_vec, exc |-> "", log |-> r.log]
    ELSE math_magic(t, left, right, [magic_vec |-> r.magic_vec, log |-> r.log])

\* text = re.sub(regexp, repl, text) for the matches ms
math_magic_sub(text, left, right, ms, r) ==
    math_magic_round(text, left, right, r, Splice(text, ms, r.reps))

math_magic_matches(text, left, right, ms, st) ==
    math_magic_sub(text, left, right, ms,
        magic_subs(text, ms, 1,
            [magic_vec |-> st.magic_vec, reps |-> <<>>, exc |-> "", log |-> st.log]))

\* math_magic(text, left, right, recurse): gives the text, magic_vec, the
\* exception raised and the lines printed.
math_magic(text, left, right, st) ==
    math_magic_matches(text, left, right, FindAll(re_magic(left, right), text, 1), st)

RECURSIVE magic_loop(_, _)

magic_loop_round(text, r) ==
    IF r.exc # "" \/ r.v = text
    THEN r
    ELSE magic_loop(r.v, [magic_vec |-> r.magic_vec, log |-> r.log])

\* The while loop of recurse around math_magic.
magic_loop(text, st) == magic_loop_round(text, math_magic(text, "{", "}", st))

\* text = "".join(parts) for what the for loop left
joined(g, r) ==
    [v |-> join(r.parts), magic_vec |-> g.magic_vec, exc |-> r.exc, log |-> r.log]

\* The for loop of recurse and what follows it, g what the while loop left.
tokens(g) ==
    IF g.exc # ""
    THEN g
    ELSE joined(g, tokens_loop(g.v, FindAll(re_token, g.v, 1), 1, g.magic_vec,
                       [parts |-> <<>>, exc |-> "",
                        log |-> g.log \o <<Line("BEFORE ITER", g.v)>>]))

recurse(text, magic_vec) ==
    tokens(magic_loop(text, [magic_vec |-> magic_vec, log |-> <<>>]))

\* What to_math returns and prints, r what recurse(text) gave.
returned(text, r) ==
    IF r.exc # ""
    THEN [v |-> <<>>, magic_vec |-> r.magic_vec, exc |-> r.exc,
          log |-> <<Line("to_math", text)>> \o r.log]
    ELSE [v |-> r.v, magic_vec |-> r.magic_vec, exc |-> "",
          log |-> <<Line("to_math", text)>> \o r.log \o <<Line("math text final", r.v)>>]

to_math(text) == returned(text, recurse(text, <<>>))
(***************************************************************************)
(* html.unescape and unicodedata.normalize("NFC", ...), as far as          *)
(* clean_value can call them on the characters of this model.  Where a     *)
(* definition below is a CASE without OTHER, the case left out is a string *)
(* outside the model's alphabet: TLC stops there and gives no result.      *)
(***************************************************************************)
HexDigits == AsciiDigits \cup {"a", "b", "c", "d", "e", "f", "A", "B", "C", "D", "E", "F"}

HexSeq == <<"0", "1", "2", "3", "4", "5", "6", "7", "8", "9", "a", "b", "c", "d", "e", "f">>

\* &(#[0-9]+;?|#[xX][0-9a-fA-F]+;?|[^\t\n\f <&#;]{1,32};?)
re_charref ==
    Cat(<<Chr("&"),
          Grp(1, Alt(<<Cat(<<Chr("#"), Plus(Set(AsciiDigits)), Opt(Chr(";"))>>),
                       Cat(<<Chr("#"), Set({"x", "X"}), Plus(Set(HexDigits)), Opt(Chr(";"))>>),
                       Cat(<<Rep(NotSet({"\t", "\n", "\f", " ", "<", "&", "#", ";"}), 1, 32),
                             Opt(Chr(";"))>>)>>))>>)

\* int(ds, base) for a string of digits
RECURSIVE int(_, _)
int(ds, base) ==
    IF ds = <<>>
    THEN 0
    ELSE int(SubSeq(ds, 1, Len(ds) - 1), base) * base
            + (CHOOSE n \in 0..15 : HexSeq[n + 1] = ToLower(ds[Len(ds)]))

\* The number of a numeric reference s = "#..." or "#x...": a number with
\* more than seven digits that count is past 0x10FFFF.
charref_digits(ds) == IF ds[Len(ds)] = ";" THEN SubSeq(ds, 1, Len(ds) - 1) ELSE ds

charref_counting(digits) ==
    SubSeq(digits,
           1 + CHOOSE n \in 0..Len(digits) :
                   /\ \A j \in 1..n : digits[j] = "0"
                   /\ n = Len(digits) \/ digits[n + 1] # "0",
           Len(digits))

charref_int(counting, base) == IF Len(counting) > 7 THEN 1114112 ELSE int(counting, base)

charref_number(s) ==
    IF s[2] \in {"x", "X"}
    THEN charref_int(charref_counting(charref_digits(From(s, 2))), 16)
    ELSE charref_int(charref_counting(charref_digits(From(s, 1))), 10)

\* The longest prefix of s that can be part of an entity name.
name_prefix(s) ==
    SubSeq(s, 1, CHOOSE n \in 0..Len(s) :
                     /\ \A j \in 1..n : s[j] \in Lower \cup Upper \cup AsciiDigits
                     /\ n = Len(s) \/ s[n + 1] \notin Lower \cup Upper \cup AsciiDigits)

\* The character of the numeric reference number num.
charref_chr(num) ==
    CASE num = 0 -> <<"U+FFFD">>
      [] num = 13 -> <<"\r">>
      [] num > 1114111 \/ (num >= 55296 /\ num <= 57343) -> <<"U+FFFD">>
      [] num \in (1..8) \cup {11} \cup (14..31) -> <<>>
      [] num = 9 -> <<"\t">>
      [] num = 10 -> <<"\n">>
      [] num = 12 -> <<"\f">>
      [] num \in 32..126 -> <<AsciiChars[num - 31]>>
      [] num = 160 -> <<"U+00A0">>

\* The longest prefix of s that is an entity name, for the lengths xs of
\* the prefixes that are.
charref_prefix(s, xs) ==
    IF xs = {}
    THEN <<"&">> \o s
    ELSE html5[SubSeq(s, 1, CHOOSE y \in xs : \A z \in xs : z <= y)]
            \o From(s, CHOOSE y \in xs : \A z \in xs : z <= y)

\* _replace_charref of html, for s = m.group(1)
replace_charref(s) ==
    IF s[1] = "#"
    THEN charref_chr(charref_number(s))
    ELSE CASE AllIn(name_prefix(s), EntityLetters) ->
                IF s \in DOMAIN html5
                THEN html5[s]
                ELSE charref_prefix(s, {x \in 2..(Len(s) - 1) : SubSeq(s, 1, x) \in DOMAIN html5})

\* html.unescape(s), ms the matches of the reference pattern
replace_charrefs(s, ms) ==
    Splice(s, ms, [k \in 1..Len(ms) |-> replace_charref(Group(s, ms[k], 1))])

html_unescape(s) ==
    IF \A k \in 1..Len(s) : s[k] # "&"
    THEN s
    ELSE replace_charrefs(s, FindAll(re_charref, s, 1))

\* unicodedata.normalize("NFC", s) for a string in which no combining mark
\* follows another: the two singletons are replaced, and each character with
\* the mark after it is composed where Unicode has the composition.
normalize_NFC(s) ==
    LET t == [k \in 1..Len(s) |->
                 IF s[k] \in DOMAIN nfc_singleton THEN nfc_singleton[s[k]] ELSE s[k]]
        composes(k) == k >= 1 /\ k < Len(t) /\ <<t[k], t[k + 1]>> \in DOMAIN nfc_compose
    IN  CASE \A k \in 1..(Len(t) - 1) : ~(t[k] \in MarkChars /\ t[k + 1] \in MarkChars) ->
            join([k \in 1..Len(t) |->
                    IF composes(k)
                    THEN <<nfc_compose[<<t[k], t[k + 1]>>]>>
                    ELSE IF composes(k - 1) THEN <<>> ELSE <<t[k]>>])

(***************************************************************************)
(* The value cleaner, clean_value.  The config argument is not modelled:   *)
(* the function only asserts its type.  A value is the record of to_math:  *)
(* v the string, exc the exception raised, log the lines printed.          *)
(***************************************************************************)
\* <\s*name\b[^>]*> and <\s*/\s*name\s*> under (?si)
open_tag(name) ==
    Cat(<<Chr("<"), Star(WS), StrI(name), WordB, Star(NotSet({">"})), Chr(">")>>)

close_tag(name) ==
    Cat(<<Chr("<"), Star(WS), Chr("/"), Star(WS), StrI(name), Star(WS), Chr(">")>>)

\* (?si)<\s*name\b[^>]*>(.*?)<\s*/\s*name\s*>
re_span(name) == Cat(<<open_tag(name), Grp(1, StarLazy(DotAll)), close_tag(name)>>)

\* \{\{[^}]+\}\}
re_template == Cat(<<Str(<<"{", "{">>), Plus(NotSet({"}"})), Str(<<"}", "}">>)>>)

\* (?s)\{\|.*?\|\}
re_table == Cat(<<Str(<<"{", "|">>), StarLazy(DotAll), Str(<<"|", "}">>)>>)

\* (?is)<\s*ref\s*[^>]*?>\s*.*?<\s*/\s*ref\s*>\n*
re_ref ==
    Cat(<<Chr("<"), Star(WS), StrI(<<"r", "e", "f">>), Star(WS), StarLazy(NotSet({">"})),
          Chr(">"), Star(WS), StarLazy(DotAll), close_tag(<<"r", "e", "f">>),
          Star(Chr("\n"))>>)

\* (?si)<\s*br\s*/?>\n*
re_br ==
    Cat(<<Chr("<"), Star(WS), StrI(<<"b", "r">>), Star(WS), Opt(Chr("/")), Chr(">"),
          Star(Chr("\n"))>>)

\* (?si)<\s*/?\s*(div|tr|li|table)\b[^>]*>
re_block ==
    Cat(<<Chr("<"), Star(WS), Opt(Chr("/")), Star(WS),
          Grp(1, Alt(<<StrI(<<"d", "i", "v">>), StrI(<<"t", "r">>), StrI(<<"l", "i">>),
                       StrI(<<"t", "a", "b", "l", "e">>)>>)),
          WordB, Star(NotSet({">"})), Chr(">")>>)

\* (?si)<\s*/?\s*(td|th)\b[^>]*>
re_cell ==
    Cat(<<Chr("<"), Star(WS), Opt(Chr("/")), Star(WS),
          Grp(1, Alt(<<StrI(<<"t", "d">>), StrI(<<"t", "h">>)>>)),
          WordB, Star(NotSet({">"})), Chr(">")>>)

\* (?si)<\s*sup\b[^>]*>\s*<\s*/\s*sup\s*>
re_empty_sup ==
    Cat(<<open_tag(<<"s", "u", "p">>), Star(WS), close_tag(<<"s", "u", "p">>)>>)

\* (?si)<\s*sub\b[^>]*>\s*<\s*/\s*sup\s*>
re_empty_sub ==
    Cat(<<open_tag(<<"s", "u", "b">>), Star(WS), close_tag(<<"s", "u", "p">>)>>)

\* (?s)<\s*[^/>][^>]*>
re_tag == Cat(<<Chr("<"), Star(WS), NotSet({"/", ">"}), Star(NotSet({">"})), Chr(">")>>)

\* (?s)<\s*/\s*[^>]+>
re_end_tag == Cat(<<Chr("<"), Star(WS), Chr("/"), Star(WS), Plus(NotSet({">"})), Chr(">")>>)

\* (?si)\[\[\s*Category\s*:\s*([^]]+?)\s*\]\]
re_category ==
    Cat(<<Str(<<"[", "[">>), Star(WS), StrI(<<"C", "a", "t", "e", "g", "o", "r", "y">>),
          Star(WS), Chr(":"), Star(WS), Grp(1, PlusLazy(NotSet({"]"}))), Star(WS),
          Str(<<"]", "]">>)>>)

\* (?s)\[\[\s*([^]|]+?)\s*\|\s*([^]|]+?)(\s*\|\s*([^]|]+?))?\s*\]\]
re_link_bars ==
    Cat(<<Str(<<"[", "[">>), Star(WS), Grp(1, PlusLazy(NotSet({"]", "|"}))), Star(WS),
          Chr("|"), Star(WS), Grp(2, PlusLazy(NotSet({"]", "|"}))),
          Opt(Grp(3, Cat(<<Star(WS), Chr("|"), Star(WS),
                           Grp(4, PlusLazy(NotSet({"]", "|"})))>>))),
          Star(WS), Str(<<"]", "]">>)>>)

\* [a-zA-z0-9]: the range A-z holds the six characters between Z and a
AZaz09 == Lower \cup Upper \cup AsciiDigits \cup {"[", bs, "]", "^", "_", "U+0060"}

\* (?s)\[\[\s*(([a-zA-z0-9]+)\s*:)?\s*([^][]+?)\]\]
re_link ==
    Cat(<<Str(<<"[", "[">>), Star(WS),
          Opt(Grp(1, Cat(<<Grp(2, Plus(Set(AZaz09))), Star(WS), Chr(":")>>))),
          Star(WS), Grp(3, PlusLazy(NotSet({"]", "["}))), Str(<<"]", "]">>)>>)

\* (?s)\[\[\s*:?([^]|]+?)\s*\]\]
re_link_plain ==
    Cat(<<Str(<<"[", "[">>), Star(WS), Opt(Chr(":")), Grp(1, PlusLazy(NotSet({"]", "|"}))),
          Star(WS), Str(<<"]", "]">>)>>)

\* \[(https?:)//[^]\s]+\s+([^]]+?)\s*\]
re_url_link ==
    Cat(<<Chr("["), Grp(1, Cat(<<Str(<<"h", "t", "t", "p">>), Opt(Chr("s")), Chr(":")>>)),
          Str(<<"/", "/">>), Plus(NotSet({"]"} \cup SpaceChars)), Plus(WS),
          Grp(2, PlusLazy(NotSet({"]"}))), Star(WS), Chr("]")>>)

\* \[//[^]\s]+\s+edit\s*\]
re_edit_link ==
    Cat(<<Str(<<"[", "/", "/">>), Plus(NotSet({"]"} \cup SpaceChars)), Plus(WS),
          Str(<<"e", "d", "i", "t">>), Star(WS), Chr("]")>>)

\* '''+: the bold markers alone
re_quotes_bold == Cat(<<Chr("'"), Chr("'"), Plus(Chr("'"))>>)

\* ''+
re_quotes == Cat(<<Chr("'"), Plus(Chr("'"))>>)

\* \xa0, [ \t\r]+ and " *\n+"
re_nbsp == Chr("U+00A0")

re_blanks == Plus(Set({" ", "\t", "\r"}))

re_newlines == Cat(<<Star(Chr(" ")), Plus(Chr("\n"))>>)

\* (?si)(File|Image)\s*:
re_file_image ==
    Cat(<<Alt(<<StrI(<<"F", "i", "l", "e">>), StrI(<<"I", "m", "a", "g", "e">>)>>),
          Star(WS), Chr(":")>>)

\* s.lower() for a string of ASCII characters
lower(s) == [k \in 1..Len(s) |-> ToLower(s[k])]

\* s.split("|")[0]
before_bar(s) ==
    SubSeq(s, 1, CHOOSE n \in 0..Len(s) :
                     /\ \A j \in 1..n : s[j] # "|"
                     /\ n = Len(s) \/ s[n + 1] = "|")

\* title = re.sub(re, c, title) for a constant c
sub_const(re, c, st) == IF st.exc # "" THEN st ELSE [st EXCEPT !.v = SubConst(re, c, st.v)]

\* fn(clean_value(...)) of repl_1_sup, repl_1_sub and repl_1_chem
then_sup(r) == IF r.exc # "" THEN r ELSE [r EXCEPT !.v = to_superscript(r.v)]

then_sub(r) == IF r.exc # "" THEN r ELSE [r EXCEPT !.v = to_subscript(r.v)]

then_chem(r) == IF r.exc # "" THEN r ELSE [r EXCEPT !.v = to_chem(r.v)]

\* repl_1_math: what to_math returned, raised and printed
returned_text(r) == [v |-> r.v, exc |-> r.exc, log |-> r.log]

repl_1_math(s, m) == returned_text(to_math(Group(s, m, 1)))

\* The steps of clean_value after the links.
\* title = re.sub(r"''+", r"", title)
strip_quotes(st) == sub_const(re_quotes, <<>>, st)

\* title = html.unescape(title)
unescape(st) == IF st.exc # "" THEN st ELSE [st EXCEPT !.v = html_unescape(st.v)]

\* The whitespace steps: nbsp, [ \t\r]+ and " *\n+".
whitespace(st) ==
    sub_const(re_newlines, <<"\n">>,
        sub_const(re_blanks, <<" ">>,
            sub_const(re_nbsp, <<" ">>, st)))

\* if not no_strip: title = title.strip(), then the NFC normalization
finish(st, no_strip) ==
    IF st.exc # ""
    THEN st
    ELSE [st EXCEPT !.v = normalize_NFC(IF no_strip THEN st.v ELSE strip(st.v))]

RECURSIVE clean_value(_, _)

repl_1(s, m) == clean_value(Group(s, m, 1), TRUE)

repl_2(s, m) == clean_value(Group(s, m, 2), TRUE)

repl_link(s, m) ==
    IF Group(s, m, 2) # <<>>
          /\ lower(Group(s, m, 2)) \in {<<"f", "i", "l", "e">>, <<"i", "m", "a", "g", "e">>}
    THEN Val(<<>>)
    ELSE clean_value(before_bar(Group(s, m, 3)), TRUE)

\* repl_link_bars without the caption group
repl_link_bars_display(s, m) ==
    IF Match(re_file_image, Group(s, m, 1)).ok
    THEN Val(<<>>)
    ELSE clean_value(Group(s, m, 2), TRUE)

repl_link_bars(s, m) ==
    IF Match(re_file_image, Group(s, m, 1)).ok
    THEN Val(<<>>)
    ELSE clean_value(IF Group(s, m, 4) # <<>> THEN Group(s, m, 4) ELSE Group(s, m, 2), TRUE)

repl_1_sup(s, m) == then_sup(clean_value(Group(s, m, 1), FALSE))

repl_1_sub(s, m) == then_sub(clean_value(Group(s, m, 1), FALSE))

repl_1_chem(s, m) == then_chem(clean_value(Group(s, m, 1), FALSE))

\* repl(m) for the function repl that re.sub is given
call(which, s, m) ==
    CASE which = "repl_1" -> repl_1(s, m)
      [] which = "repl_2" -> repl_2(s, m)
      [] which = "repl_link" -> repl_link(s, m)
      [] which = "repl_link_bars" -> repl_link_bars(s, m)
      [] which = "repl_1_sup" -> repl_1_sup(s, m)
      [] which = "repl_1_sub" -> repl_1_sub(s, m)
      [] which = "repl_1_chem" -> repl_1_chem(s, m)
      [] which = "repl_1_math" -> repl_1_math(s, m)

\* title = re.sub(re, repl, title) for a function repl, named by which: the
\* calls are made match by match, and the first exception ends them.  ms are
\* the matches, rs what repl gave for each, bad the first that raised (0: none).
first_raise(rs) ==
    IF \A k \in 1..Len(rs) : rs[k].exc = ""
    THEN 0
    ELSE CHOOSE k \in 1..Len(rs) : rs[k].exc # "" /\ \A j \in 1..(k - 1) : rs[j].exc = ""

sub_upto(st, ms, rs, bad) ==
    IF bad = 0
    THEN [v |-> Splice(st.v, ms, [k \in 1..Len(ms) |-> rs[k].v]),
          exc |-> "",
          log |-> st.log \o join([k \in 1..Len(ms) |-> rs[k].log])]
    ELSE Raise(rs[bad].exc, st.log \o join([k \in 1..bad |-> rs[k].log]))

sub_results(st, ms, rs) == sub_upto(st, ms, rs, first_raise(rs))

sub_matches(which, st, ms) ==
    sub_results(st, ms, SubSeq([k \in 1..Len(ms) |-> call(which, st.v, ms[k])], 1, Len(ms)))

sub_repl(re, which, st) ==
    IF st.exc # "" THEN st ELSE sub_matches(which, st, FindAll(re, st.v, 1))

\* The steps of clean_value before the <math> step: templates, tables,
\* references, <br>, block and cell tags, then <sup>, <sub> and <chem>.
remove_markup(st) ==
    sub_const(re_cell, <<" ">>,
      sub_const(re_block, <<"\n">>,
        sub_const(re_br, <<",", " ">>,
          sub_const(re_ref, <<>>,
            sub_const(re_table, <<"\n">>,
              sub_const(re_template, <<>>, st))))))

convert_spans(st) ==
    sub_repl(re_span(<<"c", "h", "e", "m">>), "repl_1_chem",
      sub_repl(re_span(<<"s", "u", "b">>), "repl_1_sub",
        sub_const(re_empty_sub, <<>>,
          sub_repl(re_span(<<"s", "u", "p">>), "repl_1_sup",
            sub_const(re_empty_sup, <<>>, st)))))

\* The <math> step.
convert_math(st) == sub_repl(re_span(<<"m", "a", "t", "h">>), "repl_1_math", st)

\* The steps after it: the remaining tags, categories and links.
remove_tags(st) ==
    sub_const(re_category, <<>>,
      sub_const(re_end_tag, <<>>,
        sub_const(re_tag, <<>>, st)))

replace_links(st) ==
    sub_const(re_edit_link, <<>>,
      sub_repl(re_url_link, "repl_2",
        sub_repl(re_link_plain, "repl_1",
          sub_repl(re_link, "repl_link",
            sub_repl(re_link_bars, "repl_link_bars", st)))))

clean_value(title, no_strip) ==
    finish(whitespace(unescape(strip_quotes(replace_links(remove_tags(
        convert_math(convert_spans(remove_markup(Val(title))))))))), no_strip)

(***************************************************************************)
(* The state machine.  A run is one call of a function of clean.py: Init   *)
(* draws the argument, the action of the function called leaves its result *)
(* in res (v the string returned, exc the exception raised, log the lines  *)
(* printed) and its name in op.  A second call of clean_value, on the      *)
(* string the first returned, keeps the first result in prev.              *)
(***************************************************************************)
NoResult == [v |-> <<>>, exc |-> "", log |-> <<>>]

Ready(inputs) ==
    pc = "ready" /\ op = "" /\ arg \in inputs /\ res = NoResult /\ prev = NoResult

Returned(name) == pc = "done" /\ op = name

\* All strings of at most n of the given atoms, one after the other.
RECURSIVE Strings(_, _)
Strings(atoms, n) ==
    IF n = 0
    THEN {<<>>}
    ELSE LET shorter == Strings(atoms, n - 1)
         IN  shorter \cup {s \o a : s \in shorter, a \in atoms}

(***************************************************************************)
(* The script converters.                                                  *)
(***************************************************************************)
\* Characters with a superscript and a subscript glyph ("1", "2", "x", "+"),
\* with a subscript glyph alone ("0") and with neither ("q").
ScriptChars == {<<"0">>, <<"1">>, <<"2">>, <<"x">>, <<"q">>, <<"+">>}

MaxScriptLen == 3

ScriptInputs == Strings(ScriptChars, MaxScriptLen)

CallToSuperscript ==
    /\ pc = "ready"
    /\ pc' = "done"
    /\ op' = "to_superscript"
    /\ res' = Val(to_superscript(arg))
    /\ UNCHANGED <<arg, prev>>

CallToSubscript ==
    /\ pc = "ready"
    /\ pc' = "done"
    /\ op' = "to_subscript"
    /\ res' = Val(to_subscript(arg))
    /\ UNCHANGED <<arg, prev>>

CallToChem ==
    /\ pc = "ready"
    /\ pc' = "done"
    /\ op' = "to_chem"
    /\ res' = Val(to_chem(arg))
    /\ UNCHANGED <<arg, prev>>

InitScript == Ready(ScriptInputs)

NextScript == CallToSuperscript \/ CallToSubscript \/ CallToChem

SpecScript == InitScript /\ [][NextScript]_vars

(***************************************************************************)
(* The math expander.                                                      *)
(***************************************************************************)
frac == <<bs, "f", "r", "a", "c">>

sqrt == <<bs, "s", "q", "r", "t">>

mathbb == <<bs, "m", "a", "t", "h", "b", "b">>

Brace(x) == <<"{">> \o x \o <<"}">>

\* Fractions \frac{A}{B} after a prefix.
FracPrefixes == {<<>>, <<"a">>, <<"1", "2">>, <<"x", "^">>, <<"x", "_">>, sqrt, mathbb}

FracArgs == {<<"1">>, <<"2">>, <<"a", "b">>, <<"x", "^", "2">>, <<"1", " ", "2">>}

Frac(A, B) == frac \o Brace(A) \o Brace(B)

FracInputs == {pre \o Frac(A, B) : pre \in FracPrefixes, A \in FracArgs, B \in FracArgs}

\* Roots \sqrt{X} and \sqrt[n]{X}.
SqrtIndexes == {<<"2">>, <<"3">>, <<"4">>, <<"5">>, <<"1", "2">>}

SqrtArgs == {<<"2">>, <<"8">>, <<"x">>, <<"a", "b">>, <<"x", "^", "2">>}

Sqrt(X) == sqrt \o Brace(X)

SqrtN(n, X) == sqrt \o <<"[">> \o n \o <<"]">> \o Brace(X)

SqrtInputs ==
    {Sqrt(X) : X \in SqrtArgs} \cup {SqrtN(n, X) : n \in SqrtIndexes, X \in SqrtArgs}

\* A letter, a marker and a digit, the digit bare or in braces.
MarkLetters == {<<"x">>, <<"y">>, <<"n">>}

Markers == {<<"^">>, <<"_">>}

MarkDigits == {<<"0">>, <<"1">>, <<"2">>}

MarkInputs ==
    {a \o m \o d : a \in MarkLetters, m \in Markers, d \in MarkDigits}
        \cup {a \o m \o Brace(d) : a \in MarkLetters, m \in Markers, d \in MarkDigits}

\* A \frac without its two arguments, in a brace group or not, after a
\* prefix and before a suffix.
LoneFracs == {frac, frac \o <<" ">>, frac \o <<"1">>, frac \o Brace(<<"1">>)}

LoneFracPrefixes == {<<>>, <<"x">>, <<"^">>, mathbb}

LoneFracSuffixes == {<<>>, <<"x">>, <<"+", "1">>}

LoneFracInputs ==
    {pre \o f \o post :
        pre \in LoneFracPrefixes, f \in LoneFracs \cup {Brace(t) : t \in LoneFracs},
        post \in LoneFracSuffixes}

\* Expressions of at most MaxAtoms of these atoms.
MathAtoms ==
    {<<"{">>, <<"}">>, sqrt, <<"[", "3", "]">>, frac, <<"^">>, <<"_">>, <<"x">>, <<" ">>}

MaxAtoms == 4

AtomInputs == Strings(MathAtoms, MaxAtoms)

MathInputs ==
    FracInputs \cup SqrtInputs \cup MarkInputs \cup LoneFracInputs \cup AtomInputs

CallToMath ==
    /\ pc = "ready"
    /\ pc' = "done"
    /\ op' = "to_math"
    /\ res' = to_math(arg)
    /\ UNCHANGED <<arg, prev>>

InitMath == Ready(MathInputs)

NextMath == CallToMath

SpecMath == InitMath /\ [][NextMath]_vars

(***************************************************************************)
(* The value cleaner: clean_value(config, title), and clean_value again on *)
(* the string it returned.                                                 *)
(***************************************************************************)
CallCleanValue ==
    /\ pc = "ready"
    /\ pc' = "done"
    /\ op' = "clean_value"
    /\ res' = clean_value(arg, FALSE)
    /\ UNCHANGED <<arg, prev>>

CallCleanAgain ==
    /\ pc = "done"
    /\ op = "clean_value"
    /\ res.exc = ""
    /\ pc' = "again"
    /\ prev' = res
    /\ res' = clean_value(res.v, FALSE)
    /\ UNCHANGED <<op, arg>>

NextClean == CallCleanValue \/ CallCleanAgain

\* Piped links [[t|d]] and [[t|d|e]].
LinkTargets ==
    {<<"f", "o", "o">>, <<"a", " ", "b">>,
     <<"F", "i", "l", "e", ":", "x">>, <<"f", "i", "l", "e", ":", "x">>,
     <<"I", "M", "A", "G", "E", ":", "x">>,
     <<"C", "a", "t", "e", "g", "o", "r", "y", ":", "x">>,
     <<"c", "a", "t", "e", "g", "o", "r", "y", ":", "x">>}

LinkDisplays ==
    {<<"b", "a", "r">>, <<"b">>, <<"a", " ", "b">>, <<" ", "b", "a", "r">>,
     <<"a", " ", " ", "b">>}

LinkExtras == {<<"e">>, <<"c", " ", "d">>, <<"e", " ">>}

Link2(t, d) == <<"[", "[">> \o t \o <<"|">> \o d \o <<"]", "]">>

Link3(t, d, e) == <<"[", "[">> \o t \o <<"|">> \o d \o <<"|">> \o e \o <<"]", "]">>

LinkInputs ==
    {Link2(t, d) : t \in LinkTargets, d \in LinkDisplays}
        \cup {Link3(t, d, e) : t \in LinkTargets, d \in LinkDisplays, e \in LinkExtras}

InitLink == Ready(LinkInputs)

SpecLink == InitLink /\ [][NextClean]_vars

\* Text without markup: letters, spaces, tabs and newlines.
WhiteChars == {<<"a">>, <<" ">>, <<"\n">>, <<"\t">>}

MaxWhiteLen == 5

WhiteInputs == Strings(WhiteChars, MaxWhiteLen)

InitWhite == Ready(WhiteInputs)

SpecWhite == InitWhite /\ [][NextClean]_vars

\* Apostrophes, written and as character references, around letters.
QuoteAtoms ==
    {<<"'">>, <<"'", "'">>, <<"a">>, <<"b">>,
     <<"&", "a", "p", "o", "s", ";">>, <<"&", "#", "3", "9", ";">>}

MaxQuoteAtoms == 4

QuoteInputs == Strings(QuoteAtoms, MaxQuoteAtoms)

InitQuote == Ready(QuoteInputs)

SpecQuote == InitQuote /\ [][NextClean]_vars

(***************************************************************************)
(* <math> spans whose content holds markup of the earlier steps.           *)
(***************************************************************************)
math_open == <<"<", "m", "a", "t", "h", ">">>

math_close == <<"<", "/", "m", "a", "t", "h", ">">>

MathSpan(X) == math_open \o X \o math_close

SpanAtoms ==
    {<<"x">>, <<"2">>, <<"^">>, <<"{">>, <<"}">>,
     <<"{", "{", "a", "}", "}">>,
     <<"<", "b", "r", ">">>,
     <<"<", "t", "d", ">">>,
     <<"<", "s", "u", "p", ">", "2", "<", "/", "s", "u", "p", ">">>,
     <<"<", "s", "u", "b", ">", "2", "<", "/", "s", "u", "b", ">">>}

MaxSpanAtoms == 2

SpanContents == Strings(SpanAtoms, MaxSpanAtoms)

SpanInputs == {MathSpan(X) : X \in SpanContents}

InitSpan == Ready(SpanInputs)

SpecSpan == InitSpan /\ [][NextClean]_vars

(***************************************************************************)
(* Two words of letters and digits with whitespace between them.           *)
(***************************************************************************)
WordLetters == {<<"a">>, <<"b">>, <<"1">>, <<"2">>}

MaxWordLen == 2

Words == Strings(WordLetters, MaxWordLen) \ {<<>>}

WordGaps == {<<" ">>, <<" ", " ">>}

WordInputs == {p \o gap \o v : p \in Words, gap \in WordGaps, v \in Words}

InitWords == Ready(WordInputs)

SpecWords == InitWords /\ [][NextMath]_vars

(***************************************************************************)
(* A command \name between a prefix and a suffix: names that math_map does *)
(* not have, of letters and not, and names that it has.                    *)
(***************************************************************************)
UnknownNames == {<<"f", "o", "o">>, <<"t", "o">>, <<"f">>}

SymbolNames == {<<";">>, <<"!">>, <<"#">>}

KnownNames == {<<"a", "l", "p", "h", "a">>, <<"i", "n">>, <<"l", "d", "o", "t", "s">>}

CommandNames == UnknownNames \cup SymbolNames \cup KnownNames

CommandPrefixes == {<<>>, <<"x">>, <<"a", "b">>}

CommandSuffixes == {<<>>, <<" ", "y">>, <<"1">>, <<" ", "c", "d">>}

Command(pre, name, post) == pre \o <<bs>> \o name \o post

CommandInputs ==
    {Command(pre, name, post) :
        pre \in CommandPrefixes, name \in CommandNames, post \in CommandSuffixes}

InitCommand == Ready(CommandInputs)

SpecCommand == InitCommand /\ [][NextMath]_vars

(***************************************************************************)
(* Brace groups, side by side and one in another, bare and after a marker  *)
(* or a font command.                                                      *)
(***************************************************************************)
NestAtoms == {<<"{">>, <<"}">>, <<"x">>}

MaxNestLen == 7

NestPrefixes == {<<"^">>, <<"x", "_">>, mathbb}

NestInputs ==
    Strings(NestAtoms, MaxNestLen)
        \cup {pre \o s : pre \in NestPrefixes, s \in Strings(NestAtoms, MaxNestLen - 3)}

InitNest == Ready(NestInputs)

SpecNest == InitNest /\ [][NextMath]_vars

(***************************************************************************)
(* The properties of the script converters.                                *)
(***************************************************************************)
\* C1: to_superscript is a three-way total function: "" for "", the mapped
\* glyphs in order when every character is a key of the superscript table,
\* and otherwise "^" + text for one character and "^(" + text + ")" for two
\* or more; it raises nothing and never mixes glyphs and fallback.
C1_ToSuperscriptThreeWay ==
    Returned("to_superscript") =>
        /\ res.exc = ""
        /\ arg = <<>> => res.v = <<>>
        /\ (arg # <<>> /\ AllIn(arg, DOMAIN superscript_ht)) =>
              /\ Len(res.v) = Len(arg)
              /\ \A k \in 1..Len(arg) : <<res.v[k]>> = superscript_ht[arg[k]]
        /\ (Len(arg) = 1 /\ ~AllIn(arg, DOMAIN superscript_ht)) =>
              res.v = <<"^">> \o arg
        /\ (Len(arg) >= 2 /\ ~AllIn(arg, DOMAIN superscript_ht)) =>
              res.v = <<"^", "(">> \o arg \o <<")">>

\* A text of mapped and unmapped characters came back in the caret form.
C1_Witness ==
    /\ Returned("to_superscript")
    /\ Len(arg) >= 2
    /\ \E k \in 1..Len(arg) : arg[k] \in DOMAIN superscript_ht
    /\ \E k \in 1..Len(arg) : arg[k] \notin DOMAIN superscript_ht
    /\ res.v = <<"^", "(">> \o arg \o <<")">>

\* The superscript and subscript digits of Unicode.
SuperscriptDigit ==
    [d \in AsciiDigits |->
        CASE d = "0" -> "U+2070" [] d = "1" -> "U+00B9" [] d = "2" -> "U+00B2"
          [] d = "3" -> "U+00B3" [] d = "4" -> "U+2074" [] d = "5" -> "U+2075"
          [] d = "6" -> "U+2076" [] d = "7" -> "U+2077" [] d = "8" -> "U+2078"
          [] d = "9" -> "U+2079"]

SubscriptDigit ==
    [d \in AsciiDigits |->
        CASE d = "0" -> "U+2080" [] d = "1" -> "U+2081" [] d = "2" -> "U+2082"
          [] d = "3" -> "U+2083" [] d = "4" -> "U+2084" [] d = "5" -> "U+2085"
          [] d = "6" -> "U+2086" [] d = "7" -> "U+2087" [] d = "8" -> "U+2088"
          [] d = "9" -> "U+2089"]

IsDigitRun(text) == text # <<>> /\ AllIn(text, AsciiDigits)

\* C2: for every non-empty string of the ASCII digits 0-9, to_superscript
\* returns the superscript digits, never the caret fallback, as to_subscript
\* returns the subscript digits.
C2_DigitRunsFaithful ==
    /\ (Returned("to_superscript") /\ IsDigitRun(arg)) =>
          res.v = [k \in 1..Len(arg) |-> SuperscriptDigit[arg[k]]]
    /\ (Returned("to_subscript") /\ IsDigitRun(arg)) =>
          res.v = [k \in 1..Len(arg) |-> SubscriptDigit[arg[k]]]

\* The half of C2 that holds: to_subscript on digit runs.
C2_SubscriptDigitRuns ==
    (Returned("to_subscript") /\ IsDigitRun(arg)) =>
        res.v = [k \in 1..Len(arg) |-> SubscriptDigit[arg[k]]]

\* The digit 0 came back from to_superscript in the caret form.
C2_Witness ==
    /\ Returned("to_superscript")
    /\ arg = <<"0">>
    /\ res.v = <<"^", "0">>

(***************************************************************************)
(* The properties of the math expander.                                    *)
(***************************************************************************)
\* Parentheses around an argument longer than one character.
wrap(a) == IF Len(a) > 1 THEN <<"(">> \o a \o <<")">> ELSE a

\* C6: to_math("\frac{A}{B}") is wrap(to_math(A)) + "/" + wrap(to_math(B)),
\* wherever the fraction occurs: after a prefix, the result is what the
\* prefix gives followed by the fraction.
C6_FractionAnywhere ==
    Returned("to_math") =>
        \A pre \in FracPrefixes, A \in FracArgs, B \in FracArgs :
            arg = pre \o Frac(A, B) =>
                res.v = to_math(pre).v \o wrap(to_math(A).v) \o <<"/">> \o wrap(to_math(B).v)

\* The part of C6 that holds: a fraction at the start of the expression or
\* after plain letters or digits.
C6_FractionAfterPlainText ==
    Returned("to_math") =>
        \A pre \in {<<>>, <<"a">>, <<"1", "2">>}, A \in FracArgs, B \in FracArgs :
            arg = pre \o Frac(A, B) =>
                res.v = pre \o wrap(to_math(A).v) \o <<"/">> \o wrap(to_math(B).v)

\* A fraction in an exponent came back as the marker and a bare slash.
C6_Witness ==
    /\ Returned("to_math")
    /\ arg = <<"x", "^">> \o Frac(<<"1">>, <<"2">>)
    /\ res.v = <<"x", "^", "/", "1", "2">>

\* The glyph of the n-th root.
RootGlyph(n) ==
    CASE n = <<"2">> -> <<"U+221A">>
      [] n = <<"3">> -> <<"U+221B">>
      [] n = <<"4">> -> <<"U+221C">>
      [] OTHER -> to_superscript(n) \o <<"U+221A">>

\* C7: "\sqrt{X}" gives the root glyph followed by to_math(X), "\sqrt[n]{X}"
\* the glyph of the n-th root followed by to_math(X): the operand is not
\* lost and the index brackets do not appear.
C7_RootThenOperand ==
    Returned("to_math") =>
        /\ \A X \in SqrtArgs :
              arg = Sqrt(X) => res.v = <<"U+221A">> \o to_math(X).v
        /\ \A n \in SqrtIndexes, X \in SqrtArgs :
              arg = SqrtN(n, X) => res.v = RootGlyph(n) \o to_math(X).v

\* The square root of 2 came back as the root glyph alone.
C7_Witness ==
    /\ Returned("to_math")
    /\ arg = Sqrt(<<"2">>)
    /\ res.v = <<"U+221A">>

\* C8: a letter a, a marker and a digit d, bare or in braces: "^" gives a
\* followed by to_superscript(d), "_" gives a followed by to_subscript(d).
C8_MarkersSymmetric ==
    Returned("to_math") =>
        \A a \in MarkLetters, d \in MarkDigits :
            /\ arg \in {a \o <<"^">> \o d, a \o <<"^">> \o Brace(d)} =>
                  res.v = a \o to_superscript(d)
            /\ arg \in {a \o <<"_">> \o d, a \o <<"_">> \o Brace(d)} =>
                  res.v = a \o to_subscript(d)

\* The part of C8 that holds: the superscript marker.
C8_SuperscriptMarker ==
    Returned("to_math") =>
        \A a \in MarkLetters, d \in MarkDigits :
            arg \in {a \o <<"^">> \o d, a \o <<"^">> \o Brace(d)} =>
                res.v = a \o to_superscript(d)

\* A subscript marker after a letter came back as it was written.
C8_Witness ==
    /\ Returned("to_math")
    /\ arg = <<"x", "_", "2">>
    /\ res.v = arg

\* The text that the outermost recurse tokenizes (every brace group replaced
\* by its placeholder) with the placeholder vector, and what the token loop
\* makes of a piece of it.
TopLevel(text) == magic_loop(text, [magic_vec |-> <<>>, log |-> <<>>])

Render(s, magic_vec) ==
    join(tokens_loop(s, FindAll(re_token, s, 1), 1, magic_vec,
                     [parts |-> <<>>, exc |-> "", log |-> <<>>]).parts)

\* A token of the \frac branch that the argument pattern does not match.
IsLoneFrac(t) == Match(re_frac, t).ok /\ ~Match(re_frac_args, t).ok

\* C9 as stated: the text of every \frac token without its two arguments
\* (the line printed before each "MATH FRAC ERROR") appears verbatim in the
\* result of to_math, and nothing is raised.
C9_LoneFracVerbatim ==
    Returned("to_math") =>
        /\ res.exc = ""
        /\ \A k \in 2..Len(res.log) :
              res.log[k].msg = "MATH FRAC ERROR" => Contains(res.v, res.log[k - 1].v)

\* C9, amended: for a \frac token without its two arguments that is outside
\* every brace group, expand_group returns the token as it is, nothing is
\* raised, and the result of to_math is what the tokens before it give, the
\* token verbatim, and what the tokens after it give.
C9_TopLevelLoneFracVerbatim ==
    Returned("to_math") =>
        LET g == TopLevel(arg)
            ms == FindAll(re_token, g.v, 1)
        IN  \A k \in 1..Len(ms) :
                LET t == Group0(g.v, ms[k])
                IN  IsLoneFrac(t) =>
                        /\ expand_group(t, <<>>, g.magic_vec).v = t
                        /\ res.exc = ""
                        /\ res.v = Render(SubSeq(g.v, 1, ms[k].b - 1), g.magic_vec)
                                      \o t
                                      \o Render(SubSeq(g.v, ms[k].e, Len(g.v)), g.magic_vec)

\* A lone \frac between other tokens came back in place.
C9_Witness ==
    /\ Returned("to_math")
    /\ arg = <<"x">> \o frac \o Brace(<<"1">>)
    /\ res.v = <<"x">> \o frac \o <<"1">>
    /\ \E k \in 1..Len(res.log) : res.log[k].msg = "MATH FRAC ERROR"

\* C10: to_math raises nothing: no value of expand_group is a non-string (no
\* AttributeError) and every placeholder is in the vector (no IndexError).
C10_ToMathNeverFails ==
    Returned("to_math") => res.exc = ""

\* A \sqrt[3] with a brace group came back without an exception.
C10_Witness ==
    /\ Returned("to_math")
    /\ \E X \in SqrtArgs : arg = SqrtN(<<"3">>, X)
    /\ res.exc = ""
    /\ res.v # <<>>
(***************************************************************************)
(* The properties of the value cleaner.                                    *)
(***************************************************************************)
\* Whether a link target begins with "File:" or "Image:", or with
\* "Category:", in any letter case.
IsFileImage(t) ==
    \/ startswith(lower(t), <<"f", "i", "l", "e", ":">>)
    \/ startswith(lower(t), <<"i", "m", "a", "g", "e", ":">>)

IsCategory(t) == startswith(lower(t), <<"c", "a", "t", "e", "g", "o", "r", "y", ":">>)

\* A text with no whitespace at its ends and no whitespace but single spaces.
Tidy(x) ==
    /\ strip(x) = x
    /\ \A k \in 1..Len(x) : x[k] \in SpaceChars => x[k] = " " /\ x[k + 1] # " "

Shown(t, x) ==
    /\ res.exc = ""
    /\ IsFileImage(t) \/ IsCategory(t) => res.v = <<>>
    /\ ~(IsFileImage(t) \/ IsCategory(t)) =>
          /\ res.v = clean_value(x, FALSE).v
          /\ Tidy(x) => res.v = x

C4_Idempotent ==
    (pc = "again" /\ op = "clean_value") => res.v = prev.v

\* A line of one space between two newlines: the first call left two
\* newlines, the second call one.
C4_Witness ==
    /\ pc = "again"
    /\ arg = <<"a", "\n", " ", "\n", "a">>
    /\ prev.v = <<"a", "\n", "\n", "a">>
    /\ res.v = <<"a", "\n", "a">>

\* Whether s[k] is in a run of two or more apostrophes, and s without them.
InQuoteRun(s, k) ==
    /\ s[k] = "'"
    /\ \/ k > 1 /\ s[k - 1] = "'"
       \/ k < Len(s) /\ s[k + 1] = "'"

DropQuoteRuns(s) ==
    LET keep == {k \in 1..Len(s) : ~InQuoteRun(s, k)}
        nth(j) == CHOOSE k \in keep : Cardinality({i \in keep : i <= k}) = j
    IN  [j \in 1..Cardinality(keep) |-> s[nth(j)]]

HasQuoteRun(s) == \E k \in 1..Len(s) : InQuoteRun(s, k)

\* C5: for any input, the string clean_value returns contains no run of
\* two or more apostrophes.
C5_NoQuoteRuns ==
    Returned("clean_value") => ~HasQuoteRun(res.v)

\* C5, amended: clean_value deletes every run of two or more apostrophes
\* written in the input and keeps the text between them; the character
\* references are decoded after that, so the result has no such run when
\* the input has no character reference.
C5_WrittenQuoteRunsRemoved ==
    Returned("clean_value") =>
        /\ res.exc = ""
        /\ res.v = html_unescape(DropQuoteRuns(arg))
        /\ "&" \notin {arg[k] : k \in 1..Len(arg)} =>
              res.v = DropQuoteRuns(arg) /\ ~HasQuoteRun(res.v)

\* Italic markers around a letter were removed and the letter kept.
C5_Witness ==
    /\ Returned("clean_value")
    /\ arg = <<"'", "'", "a", "'", "'">>
    /\ res.v = <<"a">>

(***************************************************************************)
(* The content of a <math> span.                                           *)
(***************************************************************************)
\* The arguments of the calls of to_math, in order: print at line 598.
IsToMathLine(l) == l.msg = "to_math"

PassedToMath(log) == [k \in 1..Len(SelectSeq(log, IsToMathLine)) |-> SelectSeq(log, IsToMathLine)[k].v]

\* C11: for an input of clean_value that holds "<math>X</math>", the string
\* passed to to_math is exactly X as it occurs in the input, unchanged by
\* the steps before the math step (templates, tables, references, <br>,
\* block and cell tags, <sup>, <sub>, <chem>).
C11_MathContentRaw ==
    Returned("clean_value") =>
        \A X \in SpanContents :
            arg = MathSpan(X) => PassedToMath(res.log) = <<X>>

\* The part of C11 that holds: content without the markup of the earlier
\* steps is passed as it is.
C11_PlainMathContentRaw ==
    Returned("clean_value") =>
        \A X \in Strings({<<"x">>, <<"2">>, <<"^">>, <<"{">>, <<"}">>}, MaxSpanAtoms) :
            arg = MathSpan(X) => PassedToMath(res.log) = <<X>>

\* An exponent in double braces was taken for a template: to_math was
\* given the content without it.
C11_Witness ==
    /\ Returned("clean_value")
    /\ arg = MathSpan(<<"^", "{", "{", "a", "}", "}">>)
    /\ PassedToMath(res.log) = <<<<"^">>>>

(***************************************************************************)
(* The spacing heuristic.                                                  *)
(***************************************************************************)
\* The condition of the heuristic for the token v after the token p.
SpaceBetween(p, v) ==
    /\ \/ p[Len(p)] \in AlphaChars /\ v[1] \in AlphaChars
       \/ p[Len(p)] \in DigitChars /\ v[1] \in DigitChars
    /\ Len(p) > 1
    /\ Len(v) > 1

\* C12: when the token v is appended after the token p, both longer than
\* one character and p's last and v's first character both alphabetic or
\* both numeric, the result of to_math has exactly one space between p and
\* v; in every other case the two are concatenated with no space.
C12_SpacingHeuristic ==
    Returned("to_math") =>
        \A p \in Words, gap \in WordGaps, v \in Words :
            arg = p \o gap \o v =>
                res.v = IF SpaceBetween(p, v) THEN p \o <<" ">> \o v ELSE p \o v

\* What the code does: the two words are concatenated with no space,
\* whatever their lengths and characters.
C12_WordsFuse ==
    Returned("to_math") =>
        \A p \in Words, gap \in WordGaps, v \in Words :
            arg = p \o gap \o v => res.v = p \o v

\* Two words of two letters came back as one word: expand_group put the
\* space before the second, and expand stripped it.
C12_Witness ==
    /\ Returned("to_math")
    /\ arg = <<"a", "b", " ", "a", "b">>
    /\ needs_space(<<<<"a", "b">>>>, <<"a", "b">>)
    /\ spaced(<<<<"a", "b">>>>, <<"a", "b">>) = <<" ", "a", "b">>
    /\ res.v = <<"a", "b", "a", "b">>

(***************************************************************************)
(* Commands that math_map does not have.                                   *)
(***************************************************************************)
\* C13: a command \name whose name is not a key of math_map and is
\* alphanumeric contributes the name with one leading and one trailing
\* space to the result of to_math, so that it stays separated by a space
\* from the tokens before and after it; a known command contributes its
\* math_map value and an unknown name that is not alphanumeric the bare
\* name.  (Spaces at the two ends of the result are not compared.)
C13_UnknownCommandSpaced ==
    Returned("to_math") =>
        \A pre \in CommandPrefixes, name \in CommandNames, post \in CommandSuffixes :
            arg = Command(pre, name, post) =>
                strip(res.v) = strip(to_math(pre).v \o command(name) \o to_math(post).v)

\* What the code does: every command contributes its value without the
\* spaces around it, the bare name when math_map does not have it.
C13_CommandsBare ==
    Returned("to_math") =>
        \A pre \in CommandPrefixes, name \in CommandNames, post \in CommandSuffixes :
            arg = Command(pre, name, post) =>
                res.v = to_math(pre).v \o strip(command(name)) \o to_math(post).v

\* The unknown command \foo between x and y: its value was the name between
\* spaces, and the result has the three fused.
C13_Witness ==
    /\ Returned("to_math")
    /\ arg = Command(<<"x">>, <<"f", "o", "o">>, <<" ", "y">>)
    /\ <<"f", "o", "o">> \notin DOMAIN math_map
    /\ lookup(<<bs, "f", "o", "o", " ">>) = <<" ", "f", "o", "o", " ">>
    /\ res.v = <<"x", "f", "o", "o", "y">>

(***************************************************************************)
(* The placeholders of the brace groups.                                   *)
(***************************************************************************)
\* What one call of repl did: the length of magic_vec before it, the
\* placeholder it returned, what recurse gave for the group, and magic_vec
\* after it.
ReplEvent(st, t, after) ==
    [before |-> Len(st.magic_vec),
     magic |-> after.reps[Len(after.reps)][1],
     exc |-> t.exc,
     t |-> t.v,
     magic_vec |-> after.magic_vec]

\* The calls of repl of one re.sub of math_magic, for the matches ms[k..].
RECURSIVE SubEvents(_, _, _, _)
SubEvents(text, ms, k, st) ==
    IF k > Len(ms) \/ st.exc # ""
    THEN <<>>
    ELSE LET t == recurse(Group(text, ms[k], 1), st.magic_vec)
             after == repl(st, t)
         IN  <<ReplEvent(st, t, after)>> \o SubEvents(text, ms, k + 1, after)

\* The calls of repl of the while loop of recurse(text), in order.
RECURSIVE ReplEvents(_, _)
ReplEvents(text, magic_vec) ==
    LET ms == FindAll(re_magic("{", "}"), text, 1)
        st == [magic_vec |-> magic_vec, reps |-> <<>>, exc |-> "", log |-> <<>>]
        r == magic_subs(text, ms, 1, st)
    IN  IF ms = <<>>
        THEN <<>>
        ELSE SubEvents(text, ms, 1, st)
                \o (IF r.exc # "" THEN <<>> ELSE ReplEvents(Splice(text, ms, r.reps), r.magic_vec))

HasMagic(s) == \E k \in 1..Len(s) : s[k] \in MagicSet

\* C14: whenever a brace group is replaced by the placeholder with code
\* point MAGIC_FIRST + k, what recurse gave for that group is the entry at
\* index k of magic_vec (the index taken before the call of recurse is the
\* length of magic_vec when the entry is appended); no entry holds a
\* placeholder; and for an input without placeholders the string that
\* to_math returns holds none.
C14_PlaceholderBookkeeping ==
    Returned("to_math") =>
        /\ \A n \in 1..Len(ReplEvents(arg, <<>>)) :
              LET e == ReplEvents(arg, <<>>)[n]
              IN  /\ e.exc = ""
                  /\ e.magic = MagicChars[e.before + 1]
                  /\ Len(e.magic_vec) = e.before + 1
                  /\ e.magic_vec[e.before + 1] = e.t
                  /\ Len(res.magic_vec) > e.before
                  /\ res.magic_vec[e.before + 1] = e.t
        /\ Len(res.magic_vec) = Len(ReplEvents(arg, <<>>))
        /\ \A k \in 1..Len(res.magic_vec) : ~HasMagic(res.magic_vec[k])
        /\ ~HasMagic(arg) => ~HasMagic(res.v)

\* A group in a group: the inner one was replaced first by the placeholder
\* of index 0, the outer one, holding that placeholder, by that of index 1,
\* and both entries and the result are free of placeholders.
C14_Witness ==
    /\ Returned("to_math")
    /\ arg = <<"{", "x", "{", "x", "}", "}", "x">>
    /\ Len(ReplEvents(arg, <<>>)) = 2
    /\ ReplEvents(arg, <<>>)[2].magic = MagicChars[2]
    /\ res.magic_vec = << <<"x">>, <<"x", "x">> >>
    /\ res.v = <<"x", "x", "x">>


====
